---- MODULE Spec2Model ----
(***************************************************************************)
(* Training progression and evaluation subsystem of dating-coach-back.    *)
(*                                                                         *)
(* State: the committed tables dc_training_progress and                    *)
(* dc_training_attempts, and one SQLAlchemy session (one database          *)
(* transaction, READ COMMITTED) per request handler.  A session holds the  *)
(* ORM objects that are not flushed yet (pend) and the statements already  *)
(* sent inside the open transaction (ins, upd, del, atts).                 *)
(*                                                                         *)
(* Spec    : request handlers of routers/practice.py running concurrently, *)
(*           one database statement per step.                              *)
(* SpecFn  : ProgressService.unlock_next and Evaluator._handle_pass run    *)
(*           in one session on a store drawn from a bounded set.           *)
(***************************************************************************)
EXTENDS Integers, Sequences, FiniteSets, TLC

(* ------------------------------ bounds --------------------------------- *)

\* number of requests started in one behaviour of Spec
MaxCalls == 2

\* number of rows of the store drawn by the initial states of SpecFn
MaxRows == 2

(* --------------------------- program constants ------------------------- *)

TRAINING_ORDER ==
  << "first_contact", "keep_conversation", "losing_interest", "rejections",
     "ask_for_date", "intimacy_boundaries", "after_date" >>

EV_TRAINING_ORDER ==
  << "first_contact", "keep_conversation", "losing_interest", "rejections",
     "ask_for_date", "intimacy_boundaries", "after_date" >>

DIFFICULTY_LEVELS == << 1, 2, 3 >>

\* Python None for an Optional[str]
None == "<None>"

\* SQL NULL of the nullable passed_at column; timestamps are 1, 2, ...
NullTime == 0

(* ------------------------------ inputs --------------------------------- *)

\* request handlers that can be in progress at the same time
Procs == {1, 2}

Users == {"u1"}

\* submode_id of the requests of Spec: the first two tracks and the last one
Submodes == {"first_contact", "keep_conversation", "after_date"}

\* difficulty_level of EvaluateRequest is validated to 1..3
Levels == {1, 2, 3}

Convs == {"c1", "c0"}

(* ------------------------- campaign graph ------------------------------ *)

\* list.index: position of the first occurrence, 0 for ValueError
Index(order, x) ==
  IF \E i \in 1..Len(order) : order[i] = x
  THEN CHOOSE i \in 1..Len(order) :
         order[i] = x /\ \A j \in 1..(i - 1) : order[j] # x
  ELSE 0

PS_next_submode(submode_id) ==
  LET idx == Index(TRAINING_ORDER, submode_id) IN
  IF idx = 0 THEN None
  ELSE IF idx + 1 <= Len(TRAINING_ORDER) THEN TRAINING_ORDER[idx + 1]
  ELSE None

\* mutant: the order wraps around after the last track
EV_next_submode_Wrap(submode_id) ==
  LET idx == Index(EV_TRAINING_ORDER, submode_id) IN
  IF idx = 0 THEN None
  ELSE EV_TRAINING_ORDER[(idx % Len(EV_TRAINING_ORDER)) + 1]

\* mutant: the last track is never given as the next one
EV_next_submode_Short(submode_id) ==
  LET idx == Index(EV_TRAINING_ORDER, submode_id) IN
  IF idx = 0 THEN None
  ELSE IF idx + 1 < Len(EV_TRAINING_ORDER) THEN EV_TRAINING_ORDER[idx + 1]
  ELSE None

EV_next_submode(submode_id) ==
  LET idx == Index(EV_TRAINING_ORDER, submode_id) IN
  IF idx = 0 THEN None
  ELSE IF idx + 1 <= Len(EV_TRAINING_ORDER) THEN EV_TRAINING_ORDER[idx + 1]
  ELSE None

(* --------------------------- rows and sessions ------------------------- *)

Target(submode_id, level) ==
  [submode_id |-> submode_id, difficulty_level |-> level]

Key(r) == << r.user_id, r.submode_id, r.difficulty_level >>

\* TrainingProgress(...): id is the primary key given to the new object
TrainingProgress(id, user_id, submode_id, level, is_unlocked, passed, passed_at) ==
  [id |-> id, user_id |-> user_id, submode_id |-> submode_id,
   difficulty_level |-> level, is_unlocked |-> is_unlocked,
   passed |-> passed, passed_at |-> passed_at]

NewRowId(call, submode_id, level) == << call, submode_id, level >>

EmptySession ==
  [ins |-> {}, upd |-> {}, del |-> {}, atts |-> {}, pend |-> << >>]

Ids(rows) == {r.id : r \in rows}

\* UPDATE ... SET <cols> WHERE id = :id applied to one row
ApplyCols(r, cols) ==
  [f \in DOMAIN r |-> IF f \in DOMAIN cols THEN cols[f] ELSE r[f]]

ApplyUpd(r, upd) ==
  IF \E w \in upd : w.id = r.id
  THEN ApplyCols(r, (CHOOSE w \in upd : w.id = r.id).cols)
  ELSE r

\* what a SELECT of the session sees under READ COMMITTED: the committed rows
\* and the session's own flushed statements
View(db, s) ==
  {ApplyUpd(r, s.upd) : r \in {x \in db : x.id \notin s.del}} \cup s.ins

\* db.add(obj) / attribute assignment on a loaded row: flushed later
AddPend(s, op) == [s EXCEPT !.pend = Append(@, op)]

\* mutant: the table has no unique constraint
InsertStatus_NoConstraint(db, others, s, row) == "ok"

\* INSERT under uq_training_progress_user_submode_level
InsertStatus(db, others, s, row) ==
  IF \E o \in others :
       \/ \E r \in o.ins : Key(r) = Key(row)
       \/ \E r \in db : Key(r) = Key(row) /\ r.id \in o.del
  THEN "blocked"
  ELSE IF \E r \in View(db, s) : Key(r) = Key(row)
  THEN "IntegrityError"
  ELSE "ok"

\* UPDATE of a loaded row by primary key
UpdateStatus(db, others, s, id) ==
  IF \E o \in others : id \in o.del \/ \E w \in o.upd : w.id = id
  THEN "blocked"
  ELSE IF id \notin Ids(View(db, s))
  THEN "StaleDataError"
  ELSE "ok"

OpStatus(db, others, s, op) ==
  IF op.op = "insert" THEN InsertStatus(db, others, s, op.row)
  ELSE IF op.op = "update" THEN UpdateStatus(db, others, s, op.id)
  ELSE "ok"

MergeUpd(upd, id, cols) ==
  LET old == {w \in upd : w.id = id}
      oldcols == IF old = {} THEN cols ELSE (CHOOSE w \in old : TRUE).cols
  IN (upd \ old) \cup {[id |-> id, cols |-> cols @@ oldcols]}

OpApply(s, op) ==
  IF op.op = "insert" THEN [s EXCEPT !.ins = @ \cup {op.row}]
  ELSE IF op.op = "update" THEN
    IF op.id \in Ids(s.ins)
    THEN [s EXCEPT !.ins = {IF r.id = op.id THEN ApplyCols(r, op.cols) ELSE r : r \in @}]
    ELSE [s EXCEPT !.upd = MergeUpd(@, op.id, op.cols)]
  ELSE [s EXCEPT !.atts = @ \cup {op.att}]

\* session.flush(): send the pending objects in order; the first statement
\* that waits or fails decides the outcome
RECURSIVE FlushFrom(_, _, _, _)
FlushFrom(db, others, s, i) ==
  IF i > Len(s.pend) THEN [st |-> "ok", s |-> [s EXCEPT !.pend = << >>]]
  ELSE LET st == OpStatus(db, others, s, s.pend[i]) IN
       IF st # "ok" THEN [st |-> st, s |-> s]
       ELSE FlushFrom(db, others, OpApply(s, s.pend[i]), i + 1)

Flush(db, others, s) == FlushFrom(db, others, s, 1)

\* select(TrainingProgress).where(user_id, submode_id, difficulty_level)
Match(rows, user_id, submode_id, level) ==
  {r \in rows : Key(r) = << user_id, submode_id, level >>}

\* mutant: the progress statements are not part of the committed transaction
CommitProgress_Lost(db, s) == db

\* COMMIT: the table after the transaction's statements are applied
CommitProgress(db, s) == View(db, s)

\* execute(select ...) autoflushes, then scalar_one_or_none()
SelectOne(db, others, s, user_id, submode_id, level) ==
  LET f == Flush(db, others, s) IN
  IF f.st # "ok" THEN [st |-> f.st, s |-> f.s, rows |-> {}]
  ELSE LET m == Match(View(db, f.s), user_id, submode_id, level) IN
       IF Cardinality(m) > 1
       THEN [st |-> "MultipleResultsFound", s |-> f.s, rows |-> {}]
       ELSE [st |-> "ok", s |-> f.s, rows |-> m]

(* ----------------------------- Evaluator ------------------------------- *)

\* mutant: the new row is added without is_unlocked=True
EV_set_passed_Locked(db, others, s, call, now, user_id, submode_id, level) ==
  LET q == SelectOne(db, others, s, user_id, submode_id, level) IN
  IF q.st # "ok" THEN [st |-> q.st, s |-> q.s]
  ELSE IF q.rows # {}
  THEN LET row == CHOOSE r \in q.rows : TRUE IN
       [st |-> "ok",
        s |-> AddPend(q.s, [op |-> "update", id |-> row.id,
                            cols |-> [passed |-> TRUE, passed_at |-> now]])]
  ELSE [st |-> "ok",
        s |-> AddPend(q.s, [op |-> "insert",
                row |-> TrainingProgress(NewRowId(call, submode_id, level),
                          user_id, submode_id, level, FALSE, TRUE, now)])]

\* mutant: marking an existing row passed also locks it
EV_set_passed_Relock(db, others, s, call, now, user_id, submode_id, level) ==
  LET q == SelectOne(db, others, s, user_id, submode_id, level) IN
  IF q.st # "ok" THEN [st |-> q.st, s |-> q.s]
  ELSE IF q.rows # {}
  THEN LET row == CHOOSE r \in q.rows : TRUE IN
       [st |-> "ok",
        s |-> AddPend(q.s, [op |-> "update", id |-> row.id,
                            cols |-> [passed |-> TRUE, passed_at |-> now,
                                      is_unlocked |-> FALSE]])]
  ELSE [st |-> "ok",
        s |-> AddPend(q.s, [op |-> "insert",
                row |-> TrainingProgress(NewRowId(call, submode_id, level),
                          user_id, submode_id, level, TRUE, TRUE, now)])]

EV_set_passed(db, others, s, call, now, user_id, submode_id, level) ==
  LET q == SelectOne(db, others, s, user_id, submode_id, level) IN
  IF q.st # "ok" THEN [st |-> q.st, s |-> q.s]
  ELSE IF q.rows # {}
  THEN LET row == CHOOSE r \in q.rows : TRUE IN
       [st |-> "ok",
        s |-> AddPend(q.s, [op |-> "update", id |-> row.id,
                            cols |-> [passed |-> TRUE, passed_at |-> now]])]
  ELSE [st |-> "ok",
        s |-> AddPend(q.s, [op |-> "insert",
                row |-> TrainingProgress(NewRowId(call, submode_id, level),
                          user_id, submode_id, level, TRUE, TRUE, now)])]

\* mutant: an existing row is overwritten with is_unlocked=True, passed=False
EV_unlock_Reset(db, others, s, call, user_id, submode_id, level) ==
  LET q == SelectOne(db, others, s, user_id, submode_id, level) IN
  IF q.st # "ok" THEN [st |-> q.st, s |-> q.s]
  ELSE IF q.rows = {}
  THEN [st |-> "ok",
        s |-> AddPend(q.s, [op |-> "insert",
                row |-> TrainingProgress(NewRowId(call, submode_id, level),
                          user_id, submode_id, level, TRUE, FALSE, NullTime)])]
  ELSE LET row == CHOOSE r \in q.rows : TRUE IN
       [st |-> "ok",
        s |-> AddPend(q.s, [op |-> "update", id |-> row.id,
                            cols |-> [is_unlocked |-> TRUE, passed |-> FALSE]])]

\* mutant: the new row is added without is_unlocked=True
EV_unlock_Locked(db, others, s, call, user_id, submode_id, level) ==
  LET q == SelectOne(db, others, s, user_id, submode_id, level) IN
  IF q.st # "ok" THEN [st |-> q.st, s |-> q.s]
  ELSE IF q.rows = {}
  THEN [st |-> "ok",
        s |-> AddPend(q.s, [op |-> "insert",
                row |-> TrainingProgress(NewRowId(call, submode_id, level),
                          user_id, submode_id, level, FALSE, FALSE, NullTime)])]
  ELSE [st |-> "ok", s |-> q.s]

\* mutant: a missing row is not added
EV_unlock_NoInsert(db, others, s, call, user_id, submode_id, level) ==
  LET q == SelectOne(db, others, s, user_id, submode_id, level) IN
  IF q.st # "ok" THEN [st |-> q.st, s |-> q.s]
  ELSE IF q.rows = {} THEN [st |-> "ok", s |-> q.s]
  ELSE LET row == CHOOSE r \in q.rows : TRUE IN
       IF ~row.is_unlocked
       THEN [st |-> "ok",
             s |-> AddPend(q.s, [op |-> "update", id |-> row.id,
                                 cols |-> [is_unlocked |-> TRUE]])]
       ELSE [st |-> "ok", s |-> q.s]

EV_unlock(db, others, s, call, user_id, submode_id, level) ==
  LET q == SelectOne(db, others, s, user_id, submode_id, level) IN
  IF q.st # "ok" THEN [st |-> q.st, s |-> q.s]
  ELSE IF q.rows = {}
  THEN [st |-> "ok",
        s |-> AddPend(q.s, [op |-> "insert",
                row |-> TrainingProgress(NewRowId(call, submode_id, level),
                          user_id, submode_id, level, TRUE, FALSE, NullTime)])]
  ELSE LET row == CHOOSE r \in q.rows : TRUE IN
       IF ~row.is_unlocked
       THEN [st |-> "ok",
             s |-> AddPend(q.s, [op |-> "update", id |-> row.id,
                                 cols |-> [is_unlocked |-> TRUE]])]
       ELSE [st |-> "ok", s |-> q.s]

\* x = ... ; then the statements F that follow it
Let(x, F(_)) == CHOOSE r \in {F(v) : v \in {x}} : TRUE

\* _handle_pass run without interruption in one session
EV_handle_pass(db, others, s, call, now, user_id, submode_id, level) ==
  Let(EV_set_passed(db, others, s, call, now, user_id, submode_id, level), LAMBDA a :
  IF a.st # "ok" THEN [st |-> a.st, s |-> a.s, unlocked |-> << >>]
  ELSE IF level = 1 THEN
    Let(EV_unlock(db, others, a.s, call, user_id, submode_id, 2), LAMBDA b :
    IF b.st # "ok" THEN [st |-> b.st, s |-> b.s, unlocked |-> << >>]
    ELSE [st |-> "ok", s |-> b.s, unlocked |-> << Target(submode_id, 2) >>])
  ELSE IF level = 2 THEN
    Let(EV_unlock(db, others, a.s, call, user_id, submode_id, 3), LAMBDA b :
    IF b.st # "ok" THEN [st |-> b.st, s |-> b.s, unlocked |-> << >>]
    ELSE Let(EV_next_submode(submode_id), LAMBDA next_submode :
         IF next_submode # None THEN
           Let(EV_unlock(db, others, b.s, call, user_id, next_submode, 1), LAMBDA c :
           IF c.st # "ok" THEN [st |-> c.st, s |-> c.s, unlocked |-> << >>]
           ELSE [st |-> "ok", s |-> c.s,
                 unlocked |-> << Target(submode_id, 3), Target(next_submode, 1) >>])
         ELSE [st |-> "ok", s |-> b.s, unlocked |-> << Target(submode_id, 3) >>]))
  ELSE [st |-> "ok", s |-> a.s, unlocked |-> << >>])

(* -------------------------- ProgressService ---------------------------- *)

\* mutant: an existing row is set unlocked and reported as changed without
\* looking at is_unlocked
PS_unlock_Always(db, others, s, call, user_id, submode_id, level) ==
  LET q == SelectOne(db, others, s, user_id, submode_id, level) IN
  IF q.st # "ok" THEN [st |-> q.st, s |-> q.s, changed |-> FALSE]
  ELSE IF q.rows = {}
  THEN [st |-> "ok", changed |-> TRUE,
        s |-> AddPend(q.s, [op |-> "insert",
                row |-> TrainingProgress(NewRowId(call, submode_id, level),
                          user_id, submode_id, level, TRUE, FALSE, NullTime)])]
  ELSE LET row == CHOOSE r \in q.rows : TRUE IN
       [st |-> "ok", changed |-> TRUE,
        s |-> AddPend(q.s, [op |-> "update", id |-> row.id,
                            cols |-> [is_unlocked |-> TRUE]])]

\* mutant: the flip of a locked row is not reported as a change
PS_unlock_Silent(db, others, s, call, user_id, submode_id, level) ==
  LET q == SelectOne(db, others, s, user_id, submode_id, level) IN
  IF q.st # "ok" THEN [st |-> q.st, s |-> q.s, changed |-> FALSE]
  ELSE IF q.rows = {}
  THEN [st |-> "ok", changed |-> TRUE,
        s |-> AddPend(q.s, [op |-> "insert",
                row |-> TrainingProgress(NewRowId(call, submode_id, level),
                          user_id, submode_id, level, TRUE, FALSE, NullTime)])]
  ELSE LET row == CHOOSE r \in q.rows : TRUE IN
       IF ~row.is_unlocked
       THEN [st |-> "ok", changed |-> FALSE,
             s |-> AddPend(q.s, [op |-> "update", id |-> row.id,
                                 cols |-> [is_unlocked |-> TRUE]])]
       ELSE [st |-> "ok", changed |-> FALSE, s |-> q.s]

\* mutant: an existing row is written back as unlocked and not passed
PS_unlock_Reset(db, others, s, call, user_id, submode_id, level) ==
  LET q == SelectOne(db, others, s, user_id, submode_id, level) IN
  IF q.st # "ok" THEN [st |-> q.st, s |-> q.s, changed |-> FALSE]
  ELSE IF q.rows = {}
  THEN [st |-> "ok", changed |-> TRUE,
        s |-> AddPend(q.s, [op |-> "insert",
                row |-> TrainingProgress(NewRowId(call, submode_id, level),
                          user_id, submode_id, level, TRUE, FALSE, NullTime)])]
  ELSE LET row == CHOOSE r \in q.rows : TRUE IN
       [st |-> "ok", changed |-> ~row.is_unlocked,
        s |-> AddPend(q.s, [op |-> "update", id |-> row.id,
                cols |-> [is_unlocked |-> TRUE, passed |-> FALSE,
                          passed_at |-> NullTime]])]

PS_unlock(db, others, s, call, user_id, submode_id, level) ==
  LET q == SelectOne(db, others, s, user_id, submode_id, level) IN
  IF q.st # "ok" THEN [st |-> q.st, s |-> q.s, changed |-> FALSE]
  ELSE IF q.rows = {}
  THEN [st |-> "ok", changed |-> TRUE,
        s |-> AddPend(q.s, [op |-> "insert",
                row |-> TrainingProgress(NewRowId(call, submode_id, level),
                          user_id, submode_id, level, TRUE, FALSE, NullTime)])]
  ELSE LET row == CHOOSE r \in q.rows : TRUE IN
       IF ~row.is_unlocked
       THEN [st |-> "ok", changed |-> TRUE,
             s |-> AddPend(q.s, [op |-> "update", id |-> row.id,
                                 cols |-> [is_unlocked |-> TRUE]])]
       ELSE [st |-> "ok", changed |-> FALSE, s |-> q.s]

PS_unlock_next(db, others, s, call, user_id, submode_id, difficulty_level) ==
  IF difficulty_level = 1 THEN
    Let(PS_unlock(db, others, s, call, user_id, submode_id, 2), LAMBDA b :
    IF b.st # "ok" THEN [st |-> b.st, s |-> b.s, unlocked |-> << >>]
    ELSE [st |-> "ok", s |-> b.s,
          unlocked |-> IF b.changed THEN << Target(submode_id, 2) >> ELSE << >>])
  ELSE IF difficulty_level = 2 THEN
    Let(PS_unlock(db, others, s, call, user_id, submode_id, 3), LAMBDA b :
    IF b.st # "ok" THEN [st |-> b.st, s |-> b.s, unlocked |-> << >>]
    ELSE Let(IF b.changed THEN << Target(submode_id, 3) >> ELSE << >>, LAMBDA u1 :
         Let(PS_next_submode(submode_id), LAMBDA next_sub :
         IF next_sub # None THEN
           Let(PS_unlock(db, others, b.s, call, user_id, next_sub, 1), LAMBDA c :
           IF c.st # "ok" THEN [st |-> c.st, s |-> c.s, unlocked |-> << >>]
           ELSE [st |-> "ok", s |-> c.s,
                 unlocked |-> IF c.changed
                              THEN Append(u1, Target(next_sub, 1)) ELSE u1])
         ELSE [st |-> "ok", s |-> b.s, unlocked |-> u1])))
  ELSE [st |-> "ok", s |-> s, unlocked |-> << >>]

\* the three objects added by initialize_progress after the DELETE
InitialUnlocks ==
  << << "first_contact", 1 >>, << "first_contact", 2 >>, << "keep_conversation", 1 >> >>

\* datetime.isoformat(): the timestamp as text
Isoformat(t) == [iso |-> t]

\* mutant: a level without a row is shown as unlocked when it is level 1
PS_get_progress_FirstOpen(rows, user_id) ==
  LET mine == {r \in rows : r.user_id = user_id}
      LevelState(submode_id, level) ==
        LET m == {r \in mine : r.submode_id = submode_id
                                /\ r.difficulty_level = level} IN
        IF m = {}
        THEN [difficulty_level |-> level, is_unlocked |-> level = 1,
              passed |-> FALSE, passed_at |-> None]
        ELSE LET row == CHOOSE r \in m : TRUE IN
             [difficulty_level |-> level, is_unlocked |-> row.is_unlocked,
              passed |-> row.passed,
              passed_at |-> IF row.passed_at # NullTime
                            THEN Isoformat(row.passed_at) ELSE None]
  IN [onboarding_complete |-> Cardinality(mine) > 0,
      trainings |->
        [i \in 1..Len(TRAINING_ORDER) |->
          [submode_id |-> TRAINING_ORDER[i],
           levels |-> [j \in 1..Len(DIFFICULTY_LEVELS) |->
                        LevelState(TRAINING_ORDER[i], DIFFICULTY_LEVELS[j])]]]]

\* mutant: onboarding counts as complete only from the second row on
PS_get_progress_TwoRows(rows, user_id) ==
  LET mine == {r \in rows : r.user_id = user_id}
      LevelState(submode_id, level) ==
        LET m == {r \in mine : r.submode_id = submode_id
                                /\ r.difficulty_level = level} IN
        IF m = {}
        THEN [difficulty_level |-> level, is_unlocked |-> FALSE,
              passed |-> FALSE, passed_at |-> None]
        ELSE LET row == CHOOSE r \in m : TRUE IN
             [difficulty_level |-> level, is_unlocked |-> row.is_unlocked,
              passed |-> row.passed,
              passed_at |-> IF row.passed_at # NullTime
                            THEN Isoformat(row.passed_at) ELSE None]
  IN [onboarding_complete |-> Cardinality(mine) > 1,
      trainings |->
        [i \in 1..Len(TRAINING_ORDER) |->
          [submode_id |-> TRAINING_ORDER[i],
           levels |-> [j \in 1..Len(DIFFICULTY_LEVELS) |->
                        LevelState(TRAINING_ORDER[i], DIFFICULTY_LEVELS[j])]]]]

PS_get_progress(rows, user_id) ==
  LET mine == {r \in rows : r.user_id = user_id}
      LevelState(submode_id, level) ==
        LET m == {r \in mine : r.submode_id = submode_id
                                /\ r.difficulty_level = level} IN
        IF m = {}
        THEN [difficulty_level |-> level, is_unlocked |-> FALSE,
              passed |-> FALSE, passed_at |-> None]
        ELSE LET row == CHOOSE r \in m : TRUE IN
             [difficulty_level |-> level, is_unlocked |-> row.is_unlocked,
              passed |-> row.passed,
              passed_at |-> IF row.passed_at # NullTime
                            THEN Isoformat(row.passed_at) ELSE None]
  IN [onboarding_complete |-> Cardinality(mine) > 0,
      trainings |->
        [i \in 1..Len(TRAINING_ORDER) |->
          [submode_id |-> TRAINING_ORDER[i],
           levels |-> [j \in 1..Len(DIFFICULTY_LEVELS) |->
                        LevelState(TRAINING_ORDER[i], DIFFICULTY_LEVELS[j])]]]]

(* ----------------------- the scorer's raw response --------------------- *)

\* A raw response is a sequence of lexical pieces: "FENCE" is ```, "json" the
\* four letters json, "TAG" a language tag that does not start with json (JSON,
\* javascript), "WS" white space, "TXT" text that is not JSON, and a
\* "J_..." piece is one complete JSON document.
JsonDocs ==
  {"J_PASS", "J_FAIL", "J_MAYBE", "J_NOFB", "J_EMPTY",
   "J_LIST", "J_STR", "J_NUM", "J_NULL"}

Pieces == JsonDocs \cup {"FENCE", "json", "TAG", "WS", "TXT"}

FB_EMPTY == [observed |-> << >>, interpretation |-> << >>]

FB_SOME == [observed |-> << "o1" >>, interpretation |-> << "i1" >>]

\* json.loads of one document
JsonValue(doc) ==
  CASE doc = "J_PASS"  -> [t |-> "object", v |-> [status |-> "pass", feedback |-> FB_SOME]]
    [] doc = "J_FAIL"  -> [t |-> "object", v |-> [status |-> "fail", feedback |-> FB_SOME]]
    [] doc = "J_MAYBE" -> [t |-> "object", v |-> [status |-> "maybe", feedback |-> FB_SOME]]
    [] doc = "J_NOFB"  -> [t |-> "object", v |-> [status |-> "pass"]]
    [] doc = "J_EMPTY" -> [t |-> "object", v |-> << >>]
    [] doc = "J_LIST"  -> [t |-> "list", v |-> << >>]
    [] doc = "J_STR"   -> [t |-> "str", v |-> << >>]
    [] doc = "J_NUM"   -> [t |-> "int", v |-> << >>]
    [] doc = "J_NULL"  -> [t |-> "NoneType", v |-> << >>]

\* str.strip()
RECURSIVE LStrip(_)
LStrip(raw) ==
  IF raw # << >> /\ Head(raw) = "WS" THEN LStrip(Tail(raw)) ELSE raw

RECURSIVE RStrip(_)
RStrip(raw) ==
  IF raw # << >> /\ raw[Len(raw)] = "WS"
  THEN RStrip(SubSeq(raw, 1, Len(raw) - 1)) ELSE raw

Strip(raw) == RStrip(LStrip(raw))

StartsWith(raw, piece) == raw # << >> /\ Head(raw) = piece

\* clean.split("```")[1] for a text that starts with ```
SplitFence1(clean) ==
  LET rest == Tail(clean)
      ends == {i \in 1..Len(rest) : rest[i] = "FENCE"}
  IN IF ends = {} THEN rest
     ELSE SubSeq(rest, 1, (CHOOSE i \in ends : \A j \in ends : i <= j) - 1)

FailResult ==
  [t |-> "object", v |-> [status |-> "fail", feedback |-> FB_EMPTY]]

EV_parse_response(raw) ==
  LET clean0 == Strip(raw)
      clean1 == IF StartsWith(clean0, "FENCE")
                THEN LET inner == SplitFence1(clean0) IN
                     IF StartsWith(inner, "json") THEN Tail(inner) ELSE inner
                ELSE clean0
      text == Strip(clean1)
  IN IF Len(text) = 1 /\ text[1] \in JsonDocs
     THEN JsonValue(text[1])
     ELSE FailResult

\* dict.get(key, default)
Get(v, key, default) == IF key \in DOMAIN v THEN v[key] ELSE default

\* json.dumps(feedback): the stored text
JsonDumps(feedback) == [json |-> feedback]

\* evaluate, lines 89-103: parse, read status and feedback, build the Attempt
EV_score(raw, call, user_id, conversation_id, submode_id, difficulty_level) ==
  LET result == EV_parse_response(raw) IN
  IF result.t # "object" THEN [st |-> "AttributeError"]
  ELSE LET status == Get(result.v, "status", "fail")
           feedback == Get(result.v, "feedback", FB_EMPTY)
       IN [st |-> "ok", status |-> status, feedback |-> feedback,
           attempt |-> [id |-> call, user_id |-> user_id,
                        conversation_id |-> conversation_id,
                        submode_id |-> submode_id,
                        difficulty_level |-> difficulty_level,
                        status |-> IF status = "pass" THEN "pass" ELSE "fail",
                        feedback |-> JsonDumps(feedback)]]

\* mutant: nothing is deleted, the bootstrap rows are merged into what is there
PS_delete_all_Merge(db, others, s, user_id) ==
  LET f == Flush(db, others, s) IN [st |-> f.st, s |-> f.s]

\* mutant: only the rows that are passed are deleted
PS_delete_all_Passed(db, others, s, user_id) ==
  LET f == Flush(db, others, s)
      hit == {r \in View(db, f.s) : r.user_id = user_id /\ r.passed}
  IN IF f.st # "ok" THEN [st |-> f.st, s |-> f.s]
     ELSE [st |-> "ok",
           s |-> [f.s EXCEPT !.del = @ \cup (Ids(hit) \ Ids(f.s.ins)),
                             !.ins = {r \in @ : r.id \notin Ids(hit)},
                             !.upd = {w \in @ : w.id \notin Ids(hit)}]]

\* mutant: the DELETE has no WHERE clause
PS_delete_all_Everyone(db, others, s, user_id) ==
  LET f == Flush(db, others, s)
      hit == View(db, f.s)
  IN IF f.st # "ok" THEN [st |-> f.st, s |-> f.s]
     ELSE IF \E o \in others : \E r \in hit :
               r.id \in o.del \/ \E w \in o.upd : w.id = r.id
     THEN [st |-> "blocked", s |-> f.s]
     ELSE [st |-> "ok",
           s |-> [f.s EXCEPT !.del = @ \cup (Ids(hit) \ Ids(f.s.ins)),
                             !.ins = {r \in @ : r.id \notin Ids(hit)},
                             !.upd = {w \in @ : w.id \notin Ids(hit)}]]

\* delete(TrainingProgress).where(user_id == user_id), executed at once
PS_delete_all(db, others, s, user_id) ==
  LET f == Flush(db, others, s)
      hit == {r \in View(db, f.s) : r.user_id = user_id}
  IN IF f.st # "ok" THEN [st |-> f.st, s |-> f.s]
     ELSE IF \E o \in others : \E r \in hit :
               r.id \in o.del \/ \E w \in o.upd : w.id = r.id
     THEN [st |-> "blocked", s |-> f.s]
     ELSE [st |-> "ok",
           s |-> [f.s EXCEPT !.del = @ \cup (Ids(hit) \ Ids(f.s.ins)),
                             !.ins = {r \in @ : r.id \notin Ids(hit)},
                             !.upd = {w \in @ : w.id \notin Ids(hit)}]]

\* initialize_progress up to, not including, the commit
PS_initialize_progress(db, others, s, call, user_id) ==
  LET d == PS_delete_all(db, others, s, user_id) IN
  IF d.st # "ok" THEN d
  ELSE [st |-> "ok",
        s |-> [d.s EXCEPT !.pend = @ \o
                 [i \in 1..Len(InitialUnlocks) |->
                   [op |-> "insert",
                    row |-> TrainingProgress(
                              NewRowId(call, InitialUnlocks[i][1], InitialUnlocks[i][2]),
                              user_id, InitialUnlocks[i][1], InitialUnlocks[i][2],
                              TRUE, FALSE, NullTime)]]]]

(* ------------------------------- state --------------------------------- *)

VARIABLES
  progress,   \* committed rows of dc_training_progress
  attempts,   \* committed rows of dc_training_attempts
  messages,   \* conversations that have at least one message
  conversations,  \* rows of dc_conversations
  counters,   \* rows of dc_message_counters
  dc_messages,  \* committed rows of dc_messages written by send_message
  sess,       \* the AsyncSession of each request handler
  pc,         \* where each handler stands
  req,        \* the request a handler is serving
  loc,        \* evaluate's locals: raw_response, status, feedback, unlocked
  resp,       \* what the handler returned or raised
  calls,      \* requests started so far
  clock,      \* datetime.utcnow()
  fn          \* SpecFn: the calls made on the drawn store

vars == << progress, attempts, messages, conversations, counters, dc_messages, sess, pc, req, loc, resp, calls, clock, fn >>

\* a row of dc_conversations with the columns the training history reads
Conversation(id, user_id, mode_id, submode_id, difficulty_level, created_at) ==
  [id |-> id, user_id |-> user_id, mode_id |-> mode_id, submode_id |-> submode_id,
   difficulty_level |-> difficulty_level, created_at |-> created_at]

NoReq == [op |-> "none"]

NoLoc == [raw |-> << >>, status |-> "", feedback |-> FB_EMPTY, unlocked |-> << >>]

NoResp == [kind |-> "none"]

\* an exception leaves the handler: get_db closes the session (rollback) and
\* the router maps ValueError to 404, anything else to 502
Raised(error) ==
  [kind |-> "error", error |-> error,
   http |-> IF error = "ValueError" THEN 404 ELSE 502]

\* raw responses the scorer gives in Spec: a pass, text that is not JSON (which
\* ends as a fail) and a JSON list
ScorerResponses ==
  { << "J_PASS" >>, << "TXT" >>, << "J_LIST" >> }

Others(p) == {sess[q] : q \in Procs \ {p}}

Init ==
  /\ progress = {}
  /\ attempts = {}
  /\ messages = {"c1"}
  /\ conversations = {Conversation("c1", "u1", "training", "first_contact", 1, 1)}
  /\ counters = {}
  /\ dc_messages = {}
  /\ sess = [p \in Procs |-> EmptySession]
  /\ pc = [p \in Procs |-> "idle"]
  /\ req = [p \in Procs |-> NoReq]
  /\ loc = [p \in Procs |-> NoLoc]
  /\ resp = [p \in Procs |-> NoResp]
  /\ calls = 0
  /\ clock = 0
  /\ fn = [phase |-> "off"]

\* the handler ends: get_db closes the session, which rolls back whatever
\* was not committed
Done(p, response) ==
  /\ sess' = [sess EXCEPT ![p] = EmptySession]
  /\ pc' = [pc EXCEPT ![p] = "idle"]
  /\ resp' = [resp EXCEPT ![p] = response]
  /\ loc' = [loc EXCEPT ![p] = NoLoc]
  /\ req' = [req EXCEPT ![p] = NoReq]

\* the handler ends with an exception
Fail(p, error) ==
  /\ Done(p, Raised(error))
  /\ UNCHANGED << progress, attempts >>

\* the handler goes on to its next statement
Goto(p, s, label) ==
  /\ sess' = [sess EXCEPT ![p] = s]
  /\ pc' = [pc EXCEPT ![p] = label]
  /\ UNCHANGED << progress, attempts, resp, req >>

\* a request goes to the first handler that is free
Free(p) == pc[p] = "idle" /\ \A q \in Procs : pc[q] = "idle" => p <= q

\* mutant: the empty transcript is not refused
StartEvaluate_NoCheck(p, user_id, conversation_id, submode_id, difficulty_level) ==
  /\ Free(p)
  /\ calls < MaxCalls
  /\ calls' = calls + 1
  /\ pc' = [pc EXCEPT ![p] = "ev_score"]
  /\ req' = [req EXCEPT ![p] =
              [op |-> "evaluate", call |-> calls + 1, user_id |-> user_id,
               conversation_id |-> conversation_id,
               submode_id |-> submode_id,
               difficulty_level |-> difficulty_level]]
  /\ resp' = [resp EXCEPT ![p] = NoResp]
  /\ UNCHANGED << sess, loc, progress, attempts >>
  /\ UNCHANGED << messages, conversations, counters, dc_messages, clock, fn >>

\* POST /v1/practice/evaluate up to _load_messages
StartEvaluate(p, user_id, conversation_id, submode_id, difficulty_level) ==
  /\ Free(p)
  /\ calls < MaxCalls
  /\ calls' = calls + 1
  /\ IF conversation_id \in messages
     THEN /\ pc' = [pc EXCEPT ![p] = "ev_score"]
          /\ req' = [req EXCEPT ![p] =
                      [op |-> "evaluate", call |-> calls + 1, user_id |-> user_id,
                       conversation_id |-> conversation_id,
                       submode_id |-> submode_id,
                       difficulty_level |-> difficulty_level]]
          /\ resp' = [resp EXCEPT ![p] = NoResp]
          /\ UNCHANGED << sess, loc, progress, attempts >>
     ELSE Fail(p, "ValueError")
  /\ UNCHANGED << messages, conversations, counters, dc_messages, clock, fn >>

\* service_client.get_file raises
EvPromptFails(p) ==
  /\ pc[p] = "ev_score"
  /\ Fail(p, "ConfigUnavailable")
  /\ UNCHANGED << messages, conversations, counters, dc_messages, calls, clock, fn >>

\* service_client.call_ai raises
EvScorerFails(p) ==
  /\ pc[p] = "ev_score"
  /\ Fail(p, "ScoringUnavailable")
  /\ UNCHANGED << messages, conversations, counters, dc_messages, calls, clock, fn >>

\* mutant: the pass handling runs whatever the status is
EvScore_AnyStatus(p, raw) ==
  /\ pc[p] = "ev_score"
  /\ LET r == EV_score(raw, req[p].call, req[p].user_id, req[p].conversation_id,
                       req[p].submode_id, req[p].difficulty_level) IN
     IF r.st # "ok"
     THEN Fail(p, r.st)
     ELSE /\ Goto(p, AddPend(sess[p], [op |-> "attempt", att |-> r.attempt]),
                  "ev_set_passed")
          /\ loc' = [loc EXCEPT ![p] = [raw |-> raw, status |-> r.status,
                                        feedback |-> r.feedback, unlocked |-> << >>]]
  /\ UNCHANGED << messages, conversations, counters, dc_messages, calls, clock, fn >>

\* call_ai returns raw: parse it and add the Attempt
EvScore(p, raw) ==
  /\ pc[p] = "ev_score"
  /\ LET r == EV_score(raw, req[p].call, req[p].user_id, req[p].conversation_id,
                       req[p].submode_id, req[p].difficulty_level) IN
     IF r.st # "ok"
     THEN Fail(p, r.st)
     ELSE /\ Goto(p, AddPend(sess[p], [op |-> "attempt", att |-> r.attempt]),
                  IF r.status = "pass" THEN "ev_set_passed" ELSE "ev_commit")
          /\ loc' = [loc EXCEPT ![p] = [raw |-> raw, status |-> r.status,
                                        feedback |-> r.feedback, unlocked |-> << >>]]
  /\ UNCHANGED << messages, conversations, counters, dc_messages, calls, clock, fn >>

\* _handle_pass: _set_passed
EvSetPassed(p) ==
  /\ pc[p] = "ev_set_passed"
  /\ LET a == EV_set_passed(progress, Others(p), sess[p], req[p].call, clock + 1,
                            req[p].user_id, req[p].submode_id,
                            req[p].difficulty_level) IN
     /\ a.st # "blocked"
     /\ IF a.st = "ok"
        THEN /\ Goto(p, a.s,
                     IF req[p].difficulty_level = 1 \/ req[p].difficulty_level = 2
                     THEN "ev_unlock_same" ELSE "ev_commit")
             /\ UNCHANGED loc
        ELSE Fail(p, a.st)
  /\ clock' = clock + 1
  /\ UNCHANGED << messages, conversations, counters, dc_messages, calls, fn >>

\* _handle_pass: _unlock of the next level of the same submode
EvUnlockSame(p) ==
  /\ pc[p] = "ev_unlock_same"
  /\ LET level == IF req[p].difficulty_level = 1 THEN 2 ELSE 3
         b == EV_unlock(progress, Others(p), sess[p], req[p].call,
                        req[p].user_id, req[p].submode_id, level) IN
     /\ b.st # "blocked"
     /\ IF b.st = "ok"
        THEN /\ Goto(p, b.s,
                     IF req[p].difficulty_level = 2
                        /\ EV_next_submode(req[p].submode_id) # None
                     THEN "ev_unlock_next" ELSE "ev_commit")
             /\ loc' = [loc EXCEPT ![p].unlocked =
                          Append(@, Target(req[p].submode_id, level))]
        ELSE Fail(p, b.st)
  /\ UNCHANGED << messages, conversations, counters, dc_messages, calls, clock, fn >>

\* _handle_pass: _unlock of level 1 of the next submode
EvUnlockNext(p) ==
  /\ pc[p] = "ev_unlock_next"
  /\ LET next_submode == EV_next_submode(req[p].submode_id)
         c == EV_unlock(progress, Others(p), sess[p], req[p].call,
                        req[p].user_id, next_submode, 1) IN
     /\ c.st # "blocked"
     /\ IF c.st = "ok"
        THEN /\ Goto(p, c.s, "ev_commit")
             /\ loc' = [loc EXCEPT ![p].unlocked = Append(@, Target(next_submode, 1))]
        ELSE Fail(p, c.st)
  /\ UNCHANGED << messages, conversations, counters, dc_messages, calls, clock, fn >>

\* mutant: the commit replaces the attempts table by the session's attempts
Commit_Replace(p, response) ==
  LET f == Flush(progress, Others(p), sess[p]) IN
  /\ f.st # "blocked"
  /\ IF f.st = "ok"
     THEN /\ progress' = CommitProgress(progress, f.s)
          /\ attempts' = f.s.atts
          /\ Done(p, response)
     ELSE Fail(p, f.st)

\* db.commit(): flush what is pending, then COMMIT
Commit(p, response) ==
  LET f == Flush(progress, Others(p), sess[p]) IN
  /\ f.st # "blocked"
  /\ IF f.st = "ok"
     THEN /\ progress' = CommitProgress(progress, f.s)
          /\ attempts' = attempts \cup f.s.atts
          /\ Done(p, response)
     ELSE Fail(p, f.st)

\* evaluate: db.commit() and the return value
EvCommit(p) ==
  /\ pc[p] = "ev_commit"
  /\ Commit(p, [kind |-> "evaluate", call |-> req[p].call,
                status |-> loc[p].status, feedback |-> loc[p].feedback,
                unlocked |-> loc[p].unlocked])
  /\ UNCHANGED << messages, conversations, counters, dc_messages, calls, clock, fn >>

\* db.commit() raises (connection lost): the transaction is rolled back
CommitFails(p) ==
  /\ pc[p] \in {"ev_commit", "init_commit"}
  /\ Fail(p, "PersistenceFailure")
  /\ UNCHANGED << messages, conversations, counters, dc_messages, calls, clock, fn >>

\* POST /v1/practice/initialize up to the commit
StartInitialize(p, user_id) ==
  /\ Free(p)
  /\ calls < MaxCalls
  /\ LET d == PS_initialize_progress(progress, Others(p), sess[p], calls + 1, user_id) IN
     /\ d.st = "ok"
     /\ sess' = [sess EXCEPT ![p] = d.s]
  /\ calls' = calls + 1
  /\ req' = [req EXCEPT ![p] = [op |-> "initialize", call |-> calls + 1,
                                user_id |-> user_id]]
  /\ pc' = [pc EXCEPT ![p] = "init_commit"]
  /\ resp' = [resp EXCEPT ![p] = NoResp]
  /\ UNCHANGED << loc, progress, attempts, messages, conversations, counters, dc_messages, clock, fn >>

\* initialize_progress: db.commit()
InitCommit(p) ==
  /\ pc[p] = "init_commit"
  /\ Commit(p, [kind |-> "initialized", call |-> req[p].call])
  /\ UNCHANGED << messages, conversations, counters, dc_messages, calls, clock, fn >>

\* GET /v1/practice/progress
GetProgress(p, user_id) ==
  /\ Free(p)
  /\ calls < MaxCalls
  /\ calls' = calls + 1
  /\ resp' = [resp EXCEPT ![p] =
                [kind |-> "progress", user_id |-> user_id,
                 data |-> PS_get_progress(progress, user_id)]]
  /\ UNCHANGED << req, loc, progress, attempts, messages, conversations, counters, dc_messages, sess, pc, clock, fn >>

Next ==
  \E p \in Procs :
    \/ \E u \in Users, c \in Convs, sub \in Submodes, lvl \in Levels :
         StartEvaluate(p, u, c, sub, lvl)
    \/ EvPromptFails(p)
    \/ EvScorerFails(p)
    \/ \E raw \in ScorerResponses : EvScore(p, raw)
    \/ EvSetPassed(p)
    \/ EvUnlockSame(p)
    \/ EvUnlockNext(p)
    \/ EvCommit(p)
    \/ CommitFails(p)
    \/ \E u \in Users : StartInitialize(p, u)
    \/ InitCommit(p)
    \/ \E u \in Users : GetProgress(p, u)

Spec == Init /\ [][Next]_vars

(* ---------- SpecEv: one handler, every kind of scorer response --------- *)

\* raw responses the scorer gives in SpecEv: objects with status pass, fail,
\* another value, without feedback, without any field; JSON that is no
\* object; text that is not JSON; the empty text; a fenced and a padded object
EvRawResponses ==
  { << "J_PASS" >>, << "J_FAIL" >>, << "J_MAYBE" >>, << "J_NOFB" >>,
    << "J_EMPTY" >>, << "J_LIST" >>, << "TXT" >>, << >>,
    << "FENCE", "json", "WS", "J_PASS", "WS", "FENCE" >>,
    << "WS", "J_FAIL", "WS" >> }

\* submode_id of the requests of SpecEv
EvSubmodes == {"first_contact", "after_date"}

\* the requests are served one after another by the first handler
NextEv ==
  \E p \in {1} :
    \/ \E u \in Users, c \in Convs, sub \in EvSubmodes, lvl \in Levels :
         StartEvaluate(p, u, c, sub, lvl)
    \/ EvPromptFails(p)
    \/ EvScorerFails(p)
    \/ \E raw \in EvRawResponses : EvScore(p, raw)
    \/ EvSetPassed(p)
    \/ EvUnlockSame(p)
    \/ EvUnlockNext(p)
    \/ EvCommit(p)
    \/ CommitFails(p)
    \/ \E u \in Users : StartInitialize(p, u)
    \/ InitCommit(p)
    \/ \E u \in Users : GetProgress(p, u)

SpecEv == Init /\ [][NextEv]_vars

(* ------------- SpecFn: the unlock functions on a drawn store ----------- *)

FnUser == "u1"

\* tracks of the calls and of the drawn rows: first two, last, and a name
\* that is not in TRAINING_ORDER
FnSubmodes == {"first_contact", "keep_conversation", "after_date", "bogus"}

\* levels given to the functions, 0 and 4 being outside DIFFICULTY_LEVELS
FnLevels == {0, 1, 2, 3, 4}

\* a row the table can hold for a key: locked, unlocked, or passed at time 1
FnRows ==
  {TrainingProgress(<< 0, sub, lvl >>, FnUser, sub, lvl, st[1], st[2], st[3]) :
     sub \in FnSubmodes, lvl \in {1, 2, 3},
     st \in {<< FALSE, FALSE, NullTime >>, << TRUE, FALSE, NullTime >>,
             << TRUE, TRUE, 1 >>}}

\* no row in a slot of a drawn table
NoRow == [id |-> << >>]

\* the tables of at most n rows that satisfy the unique constraint
Stores(n) ==
  {S \in {{f[i] : i \in 1..n} \ {NoRow} : f \in [1..n -> FnRows \cup {NoRow}]} :
     \A x, y \in S : Key(x) = Key(y) => x = y}

\* the rows the next statement of the session would see
SessView(db, s) == View(db, Flush(db, {}, s).s)

InitFn ==
  /\ progress \in Stores(MaxRows)
  /\ attempts = {}
  /\ messages = {"c1"}
  /\ conversations = {Conversation("c1", "u1", "training", "first_contact", 1, 1)}
  /\ counters = {}
  /\ dc_messages = {}
  /\ sess = [p \in Procs |-> EmptySession]
  /\ pc = [p \in Procs |-> "idle"]
  /\ req = [p \in Procs |-> NoReq]
  /\ loc = [p \in Procs |-> NoLoc]
  /\ resp = [p \in Procs |-> NoResp]
  /\ calls = 0
  /\ clock = 1
  /\ fn = [phase |-> "start"]

\* progress_service.unlock_next(db, user, submode_id, level)
FnUnlockNext(submode_id, level) ==
  /\ fn.phase = "start"
  /\ \E r \in {PS_unlock_next(progress, {}, sess[1], 1, FnUser, submode_id, level)} :
     /\ sess' = [sess EXCEPT ![1] = r.s]
     /\ fn' = [phase |-> "unlock_next_1", submode_id |-> submode_id,
               level |-> level, st1 |-> r.st, r1 |-> r.unlocked,
               before |-> SessView(progress, sess[1]),
               after1 |-> SessView(progress, r.s)]
  /\ calls' = 1
  /\ UNCHANGED << progress, attempts, messages, conversations, counters, dc_messages, pc, req, loc, resp, clock >>

\* the same call once more in the same session
FnUnlockNextAgain ==
  /\ fn.phase = "unlock_next_1"
  /\ \E r \in {PS_unlock_next(progress, {}, sess[1], 2, FnUser,
                             fn.submode_id, fn.level)} :
     /\ sess' = [sess EXCEPT ![1] = r.s]
     /\ fn' = [phase |-> "unlock_next_2", submode_id |-> fn.submode_id,
               level |-> fn.level, st1 |-> fn.st1, r1 |-> fn.r1,
               before |-> fn.before, after1 |-> fn.after1,
               st2 |-> r.st, r2 |-> r.unlocked,
               after2 |-> SessView(progress, r.s)]
  /\ calls' = 2
  /\ UNCHANGED << progress, attempts, messages, conversations, counters, dc_messages, pc, req, loc, resp, clock >>

\* evaluator._handle_pass(db, user, submode_id, level)
FnHandlePass(submode_id, level) ==
  /\ fn.phase = "start"
  /\ \E r \in {EV_handle_pass(progress, {}, sess[1], 1, clock + 1, FnUser,
                             submode_id, level)} :
     /\ sess' = [sess EXCEPT ![1] = r.s]
     /\ fn' = [phase |-> "handle_pass", submode_id |-> submode_id,
               level |-> level, st1 |-> r.st, r1 |-> r.unlocked,
               before |-> SessView(progress, sess[1]),
               after1 |-> SessView(progress, r.s)]
  /\ calls' = 1
  /\ clock' = clock + 1
  /\ UNCHANGED << progress, attempts, messages, conversations, counters, dc_messages, pc, req, loc, resp >>

\* evaluator._unlock(db, user, submode_id, level), level one of 1, 2, 3 as in
\* the calls _handle_pass makes
FnUnlock(submode_id, level) ==
  /\ fn.phase = "start"
  /\ \E r \in {EV_unlock(progress, {}, sess[1], 1, FnUser, submode_id, level)} :
     /\ sess' = [sess EXCEPT ![1] = r.s]
     /\ fn' = [phase |-> "ev_unlock", submode_id |-> submode_id,
               level |-> level, st1 |-> r.st, r1 |-> << >>,
               before |-> SessView(progress, sess[1]),
               after1 |-> SessView(progress, r.s)]
  /\ calls' = 1
  /\ UNCHANGED << progress, attempts, messages, conversations, counters, dc_messages, pc, req, loc, resp, clock >>

\* progress_service.initialize_progress(db, user) with its commit, then
\* get_progress(db, user); phase "initialize_1", then "initialize_2" for the
\* same call once more
FnInitialize ==
  /\ fn.phase \in {"start", "initialize_1"}
  /\ \E n \in {IF fn.phase = "start" THEN 1 ELSE 2} :
     \E d \in {PS_initialize_progress(progress, {}, sess[1], n, FnUser)} :
     \E f \in {Flush(progress, {}, d.s)} :
       /\ progress' = IF d.st = "ok" /\ f.st = "ok"
                      THEN CommitProgress(progress, f.s) ELSE progress
       /\ fn' = [phase |-> IF n = 1 THEN "initialize_1" ELSE "initialize_2",
                 st1 |-> IF d.st # "ok" THEN d.st ELSE f.st,
                 before |-> IF n = 1 THEN progress ELSE fn.before,
                 after1 |-> IF n = 1 THEN progress' ELSE fn.after1,
                 after2 |-> progress',
                 data |-> PS_get_progress(progress', FnUser)]
       /\ calls' = n
  /\ UNCHANGED << attempts, messages, conversations, counters, dc_messages, sess, pc, req, loc, resp, clock >>

\* the users of get_progress calls: the owner of the drawn rows and a user
\* who has no row
FnReaders == {"u1", "u2"}

\* progress_service.get_progress(db, user) on the drawn table
FnGetProgress(user_id) ==
  /\ fn.phase = "start"
  /\ fn' = [phase |-> "get_progress", user_id |-> user_id, before |-> progress,
            data |-> PS_get_progress(progress, user_id)]
  /\ calls' = 1
  /\ UNCHANGED << progress, attempts, messages, conversations, counters, dc_messages, sess, pc, req,
                  loc, resp, clock >>

\* from the same table: evaluator._handle_pass on one side, and on the other
\* evaluator._set_passed followed by progress_service.unlock_next
FnSideBySide(submode_id, level) ==
  /\ fn.phase = "start"
  /\ \E ev \in {EV_handle_pass(progress, {}, sess[1], 1, clock + 1, FnUser,
                              submode_id, level)} :
     \E a \in {EV_set_passed(progress, {}, sess[1], 1, clock + 1, FnUser,
                             submode_id, level)} :
     \E ps \in {PS_unlock_next(progress, {}, a.s, 1, FnUser, submode_id, level)} :
       fn' = [phase |-> "side_by_side", submode_id |-> submode_id,
              level |-> level, before |-> progress,
              ev_st |-> ev.st, ev_unlocked |-> ev.unlocked,
              ev_after |-> SessView(progress, ev.s),
              ps_st |-> IF a.st # "ok" THEN a.st ELSE ps.st,
              ps_unlocked |-> ps.unlocked,
              ps_after |-> SessView(progress, ps.s)]
  /\ calls' = 1
  /\ clock' = clock + 1
  /\ UNCHANGED << progress, attempts, messages, conversations, counters, dc_messages, sess, pc, req,
                  loc, resp >>

\* the committed table after an evaluate with a pass that ran alone from db:
\* _handle_pass in a new session, then db.commit()
PassCommitted(db, call, now, user_id, submode_id, level) ==
  Let(EV_handle_pass(db, {}, EmptySession, call, now, user_id, submode_id, level),
      LAMBDA h :
  Let(Flush(db, {}, h.s), LAMBDA f :
  IF h.st = "ok" /\ f.st = "ok"
  THEN [st |-> "ok", db |-> CommitProgress(db, f.s)]
  ELSE [st |-> IF h.st # "ok" THEN h.st ELSE f.st, db |-> db]))

\* the (track, level) pairs of the two evaluations
FnPassKeys ==
  {<< sub, lvl >> : sub \in {"first_contact", "keep_conversation", "after_date"},
                    lvl \in {1, 2, 3}}

\* place of a pair in the campaign
Rank(k) == 3 * Index(TRAINING_ORDER, k[1]) + k[2]

\* two passing evaluations of a and b, one after the other, in both orders
\* (a is the earlier pair of the campaign; both orders are run for it)
FnTwoPasses(a, b) ==
  /\ fn.phase = "start"
  /\ Rank(a) < Rank(b)
  /\ \E a1 \in {PassCommitted(progress, 1, clock + 1, FnUser, a[1], a[2])} :
     \E ab \in {PassCommitted(a1.db, 2, clock + 2, FnUser, b[1], b[2])} :
     \E b1 \in {PassCommitted(progress, 1, clock + 1, FnUser, b[1], b[2])} :
     \E ba \in {PassCommitted(b1.db, 2, clock + 2, FnUser, a[1], a[2])} :
       fn' = [phase |-> "two_passes", a |-> a, b |-> b, before |-> progress,
              st_ab |-> << a1.st, ab.st >>, st_ba |-> << b1.st, ba.st >>,
              after_ab |-> ab.db, after_ba |-> ba.db]
  /\ calls' = 2
  /\ clock' = clock + 2
  /\ UNCHANGED << progress, attempts, messages, conversations, counters,
                  dc_messages, sess, pc, req, loc, resp >>

NextFn ==
  \/ \E sub \in FnSubmodes, lvl \in FnLevels : FnUnlockNext(sub, lvl)
  \/ FnUnlockNextAgain
  \/ \E sub \in FnSubmodes, lvl \in FnLevels : FnHandlePass(sub, lvl)
  \/ \E sub \in FnSubmodes, lvl \in {1, 2, 3} : FnUnlock(sub, lvl)
  \/ FnInitialize
  \/ \E u \in FnReaders : FnGetProgress(u)
  \/ \E sub \in FnSubmodes, lvl \in {1, 2, 3} : FnSideBySide(sub, lvl)
  \/ \E a, b \in FnPassKeys : FnTwoPasses(a, b)

SpecFn == InitFn /\ [][NextFn]_vars

(* ------------- training history and deleted conversations --------------- *)

\* bound: the number of calls in a run of SpecHist (evaluate calls are
\* bounded by MaxCalls) and of send_message calls in a run of SpecMsg
MaxOps == 4

HistUsers == {"u1", "u2"}

\* "c0" is the id of no conversation
HistConvs == {"c0", "c1", "c2", "c3", "c4"}

\* the conversations at the start: two trainings and the onboarding
\* conversation of u1, and a training of u2
InitialConversations ==
  { Conversation("c1", "u1", "training", "first_contact", 1, 1),
    Conversation("c2", "u1", "training", "first_contact", 2, 2),
    Conversation("c3", "u1", "training", "pre_training", 1, 3),
    Conversation("c4", "u2", "training", "first_contact", 1, 4) }

InitHist ==
  /\ progress = {}
  /\ attempts = {}
  /\ conversations = InitialConversations
  /\ counters = {}
  /\ dc_messages = {}
  /\ messages = {c.id : c \in InitialConversations}
  /\ sess = [p \in Procs |-> EmptySession]
  /\ pc = [p \in Procs |-> "idle"]
  /\ req = [p \in Procs |-> NoReq]
  /\ loc = [p \in Procs |-> NoLoc]
  /\ resp = [p \in Procs |-> NoResp]
  /\ calls = 0
  /\ clock = 0
  /\ fn = [phase |-> "off"]

\* dc_messages.conversation_id: ON DELETE CASCADE
MessagesOnDelete(msgs, ids) == msgs \ ids

\* mutant: the attempts of a deleted conversation are deleted with it
AttemptsOnDelete_Cascade(atts, ids) ==
  {a \in atts : a.conversation_id \notin ids}

\* dc_training_attempts.conversation_id: ON DELETE SET NULL
AttemptsOnDelete(atts, ids) ==
  {IF a.conversation_id \in ids THEN [a EXCEPT !.conversation_id = None] ELSE a :
     a \in atts}

\* DELETE FROM dc_conversations of the rows with these ids, and COMMIT
DeleteRows(ids) ==
  /\ conversations' = {c \in conversations : c.id \notin ids}
  /\ messages' = MessagesOnDelete(messages, ids)
  /\ dc_messages' = {m \in dc_messages : m.conversation_id \notin ids}
  /\ attempts' = AttemptsOnDelete(attempts, ids)

\* HTTPException(status_code=404)
NotFound == [kind |-> "error", error |-> "HTTPException", http |-> 404]

\* DELETE /v1/practice/history/{conversation_id}
DeleteTrainingConversation(p, user_id, conversation_id) ==
  /\ Free(p)
  /\ calls < MaxOps
  /\ calls' = calls + 1
  /\ req' = [req EXCEPT ![p] = [op |-> "delete_training_conversation",
                                call |-> calls + 1, user_id |-> user_id,
                                conversation_id |-> conversation_id]]
  /\ LET conv == {c \in conversations :
                    c.id = conversation_id /\ c.user_id = user_id} IN
     IF conv = {}
     THEN /\ resp' = [resp EXCEPT ![p] = NotFound]
          /\ UNCHANGED << conversations, messages, dc_messages, attempts >>
     ELSE /\ DeleteRows({conversation_id})
          /\ resp' = [resp EXCEPT ![p] = [kind |-> "deleted", call |-> calls + 1]]
  /\ UNCHANGED << progress, counters, sess, pc, loc, clock, fn >>

\* DELETE /v1/conversations/{conversation_id}
DeleteConversation(p, user_id, conversation_id) ==
  /\ Free(p)
  /\ calls < MaxOps
  /\ calls' = calls + 1
  /\ req' = [req EXCEPT ![p] = [op |-> "delete_conversation",
                                call |-> calls + 1, user_id |-> user_id,
                                conversation_id |-> conversation_id]]
  /\ LET conversation == {c \in conversations : c.id = conversation_id} IN
     IF conversation = {} \/ \E c \in conversation : c.user_id # user_id
     THEN /\ resp' = [resp EXCEPT ![p] = NotFound]
          /\ UNCHANGED << conversations, messages, dc_messages, attempts >>
     ELSE /\ DeleteRows({conversation_id})
          /\ resp' = [resp EXCEPT ![p] = [kind |-> "deleted", call |-> calls + 1]]
  /\ UNCHANGED << progress, counters, sess, pc, loc, clock, fn >>

\* DELETE /v1/conversations
DeleteAllConversations(p, user_id) ==
  /\ Free(p)
  /\ calls < MaxOps
  /\ calls' = calls + 1
  /\ req' = [req EXCEPT ![p] = [op |-> "delete_all_conversations",
                                call |-> calls + 1, user_id |-> user_id]]
  /\ LET ids == {c.id : c \in {d \in conversations : d.user_id = user_id}} IN
     /\ DeleteRows(ids)
     /\ resp' = [resp EXCEPT ![p] = [kind |-> "deleted", call |-> calls + 1,
                                     deleted_count |-> Cardinality(ids)]]
  /\ UNCHANGED << progress, counters, sess, pc, loc, clock, fn >>

\* .order_by(Conversation.created_at.desc())
RECURSIVE OrderByCreatedAtDesc(_)
OrderByCreatedAtDesc(rows) ==
  IF rows = {} THEN << >>
  ELSE LET c == CHOOSE c \in rows : \A d \in rows : d.created_at <= c.created_at
       IN << c >> \o OrderByCreatedAtDesc(rows \ {c})

\* select(TrainingAttempt).where(conversation_id.in_(conv_ids)): a NULL
\* conversation_id is in no list
AttemptsIn(atts, conv_ids) ==
  {a \in atts : a.conversation_id # None /\ a.conversation_id \in conv_ids}

\* {a.conversation_id: a for a in attempts}: of several attempts of one
\* conversation the one the query gives last stays, and the query has no order
AttemptIndexes(atts) ==
  {index \in [{a.conversation_id : a \in atts} -> atts] :
     \A k \in DOMAIN index : index[k].conversation_id = k}

\* json.loads(attempt.feedback)
JsonLoads(text) == text.json

\* TrainingConversationItem for conversation c
HistoryItem(c, index) ==
  IF c.id \in DOMAIN index
  THEN [conversation_id |-> c.id, submode_id |-> c.submode_id,
        difficulty_level |-> c.difficulty_level,
        created_at |-> Isoformat(c.created_at),
        attempt_id |-> [str |-> index[c.id].id],
        status |-> index[c.id].status,
        feedback |-> JsonLoads(index[c.id].feedback)]
  ELSE [conversation_id |-> c.id, submode_id |-> c.submode_id,
        difficulty_level |-> c.difficulty_level,
        created_at |-> Isoformat(c.created_at),
        attempt_id |-> None, status |-> None, feedback |-> None]

\* GET /v1/practice/history
GetTrainingHistory(p, user_id) ==
  /\ Free(p)
  /\ calls < MaxOps
  /\ calls' = calls + 1
  /\ req' = [req EXCEPT ![p] = [op |-> "get_training_history",
                                call |-> calls + 1, user_id |-> user_id]]
  /\ LET rows == {c \in conversations :
                    /\ c.user_id = user_id
                    /\ c.mode_id = "training"
                    /\ c.submode_id # "pre_training"}
         convs == OrderByCreatedAtDesc(rows)
         conv_ids == {convs[i].id : i \in 1..Len(convs)}
     IN \E index \in AttemptIndexes(AttemptsIn(attempts, conv_ids)) :
          resp' = [resp EXCEPT ![p] =
                     [kind |-> "history", call |-> calls + 1,
                      conversations |->
                        [i \in 1..Len(convs) |-> HistoryItem(convs[i], index)]]]
  /\ UNCHANGED << progress, attempts, messages, conversations, counters, dc_messages, sess, pc, loc,
                  clock, fn >>

NextHist ==
  \E p \in {1} :
    \/ \E c \in {"c1", "c2"}, lvl \in {1, 2} :
         StartEvaluate(p, "u1", c, "first_contact", lvl)
    \/ \E raw \in {<<"J_PASS">>, <<"J_FAIL">>} : EvScore(p, raw)
    \/ EvSetPassed(p)
    \/ EvUnlockSame(p)
    \/ EvUnlockNext(p)
    \/ EvCommit(p)
    \/ \E u \in HistUsers, c \in HistConvs : DeleteTrainingConversation(p, u, c)
    \/ \E u \in HistUsers, c \in HistConvs : DeleteConversation(p, u, c)
    \/ \E u \in HistUsers : DeleteAllConversations(p, u)
    \/ \E u \in HistUsers : GetTrainingHistory(p, u)

SpecHist == InitHist /\ [][NextHist]_vars

(* ------------------- the parser on fenced responses --------------------- *)

\* what follows the opening fence: nothing, json, or another language tag
FenceTags == {"none", "json", "TAG"}

\* the documents a response carries: each JSON document, and text
FenceDocs == JsonDocs \cup {"TXT"}

Ws(b) == IF b THEN << "WS" >> ELSE << >>

\* doc between an opening fence with the tag and a closing fence; w says where
\* white space stands: before the fence, after the tag, before the closing
\* fence, after it
Fenced(doc, tag, w) ==
  Ws(w[1]) \o << "FENCE" >> \o (IF tag = "none" THEN << >> ELSE << tag >>)
    \o Ws(w[2]) \o << doc >> \o Ws(w[3]) \o << "FENCE" >> \o Ws(w[4])

InitParse ==
  /\ progress = {}
  /\ attempts = {}
  /\ messages = {"c1"}
  /\ conversations = {Conversation("c1", "u1", "training", "first_contact", 1, 1)}
  /\ counters = {}
  /\ dc_messages = {}
  /\ sess = [p \in Procs |-> EmptySession]
  /\ pc = [p \in Procs |-> "idle"]
  /\ req = [p \in Procs |-> NoReq]
  /\ loc = [p \in Procs |-> NoLoc]
  /\ resp = [p \in Procs |-> NoResp]
  /\ calls = 0
  /\ clock = 0
  /\ fn = [phase |-> "start"]

\* evaluator._parse_response on the fenced response and on the same response
\* without the fences
FnParseResponse(doc, tag, w) ==
  /\ fn.phase = "start"
  /\ fn' = [phase |-> "parse_response", doc |-> doc, tag |-> tag,
            raw |-> Fenced(doc, tag, w),
            fenced |-> EV_parse_response(Fenced(doc, tag, w)),
            plain |-> EV_parse_response(<< doc >>)]
  /\ calls' = 1
  /\ UNCHANGED << progress, attempts, messages, conversations, counters, dc_messages, sess, pc, req,
                  loc, resp, clock >>

NextParse ==
  \E doc \in FenceDocs, tag \in FenceTags, w \in [1..4 -> BOOLEAN] :
    FnParseResponse(doc, tag, w)

SpecParse == InitParse /\ [][NextParse]_vars

(* --------------------- send_message and the free tier ------------------- *)

\* free_message_limit of the app settings, the same for every call
FreeLimit == 1

MsgUsers == {"u1", "u2"}

\* "c1" is a conversation of u1, "c4" one of u2, "c0" the id of none
MsgConvs == {"c0", "c1", "c4"}

\* a row of dc_message_counters
MessageCounter(user_id, message_count) ==
  [user_id |-> user_id, message_count |-> message_count]

\* a row of dc_messages written by the call
Message(call, conversation_id, role) ==
  [id |-> << call, role >>, conversation_id |-> conversation_id, role |-> role]

InitMsg ==
  /\ progress = {}
  /\ attempts = {}
  /\ conversations = InitialConversations
  /\ counters = {}
  /\ dc_messages = {}
  /\ messages = {}
  /\ sess = [p \in Procs |-> EmptySession]
  /\ pc = [p \in Procs |-> "idle"]
  /\ req = [p \in Procs |-> NoReq]
  /\ loc = [p \in Procs |-> NoLoc]
  /\ resp = [p \in Procs |-> NoResp]
  /\ calls = 0
  /\ clock = 0
  /\ fn = [phase |-> "off"]

\* SELECT of the counter row of the user, as session.get does when the row is
\* not in the identity map of the session
SelectCounter(user_id) == {c \in counters : c.user_id = user_id}

\* HTTPException(403, subscription_required)
SubscriptionRequired(messages_used) ==
  [kind |-> "error", error |-> "subscription_required", http |-> 403,
   messages_used |-> messages_used, limit |-> FreeLimit]

\* POST /v1/conversations/{id}/messages of a user who is not subscribed, up
\* to the call of the AI gateway: the owner check, the free-tier check, and
\* the user message added and flushed
StartSendMessage(p, user_id, conversation_id) ==
  /\ Free(p)
  /\ calls < MaxOps
  /\ calls' = calls + 1
  /\ req' = [req EXCEPT ![p] = [op |-> "send_message", call |-> calls + 1,
                                user_id |-> user_id,
                                conversation_id |-> conversation_id]]
  /\ LET conversation == {c \in conversations : c.id = conversation_id}
         counter == SelectCounter(user_id)
         messages_used == IF counter = {} THEN 0
                          ELSE (CHOOSE c \in counter : TRUE).message_count
     IN IF conversation = {} \/ \E c \in conversation : c.user_id # user_id
        THEN /\ resp' = [resp EXCEPT ![p] = NotFound]
             /\ UNCHANGED << pc, loc >>
        ELSE IF messages_used >= FreeLimit
        THEN /\ resp' = [resp EXCEPT ![p] = SubscriptionRequired(messages_used)]
             /\ UNCHANGED << pc, loc >>
        ELSE /\ resp' = [resp EXCEPT ![p] = NoResp]
             /\ pc' = [pc EXCEPT ![p] = "sm_call_ai"]
             /\ loc' = [loc EXCEPT ![p] = [counter |-> counter]]
  /\ UNCHANGED << progress, attempts, messages, conversations, counters,
                  dc_messages, sess, clock, fn >>

\* service_client.call_ai raises: HTTP 502, the session is rolled back
SmAiFails(p) ==
  /\ pc[p] = "sm_call_ai"
  /\ Fail(p, "AiUnavailable")
  /\ UNCHANGED << messages, conversations, counters, dc_messages, calls, clock, fn >>

\* call_ai returns: the assistant message is added and the counter is
\* incremented in the session. session.get gives the object read by the
\* free-tier check when there was a row then, and selects again when not.
SmIncrement(p) ==
  /\ pc[p] = "sm_call_ai"
  /\ LET counter == IF loc[p].counter # {} THEN loc[p].counter
                    ELSE SelectCounter(req[p].user_id)
     IN loc' = [loc EXCEPT ![p] =
                  IF counter = {}
                  THEN [counter |-> counter, op |-> "insert", message_count |-> 0 + 1]
                  ELSE [counter |-> counter, op |-> "update",
                        message_count |-> (CHOOSE c \in counter : TRUE).message_count + 1]]
  /\ pc' = [pc EXCEPT ![p] = "sm_commit"]
  /\ UNCHANGED << progress, attempts, messages, conversations, counters,
                  dc_messages, sess, req, resp, calls, clock, fn >>

\* session.commit(): the INSERT of a counter row fails on the primary key when
\* the user has a row by now; the UPDATE sets message_count to the value
\* computed in the session
SmCommit(p) ==
  /\ pc[p] = "sm_commit"
  /\ IF loc[p].op = "insert" /\ SelectCounter(req[p].user_id) # {}
     THEN /\ Done(p, [kind |-> "error", error |-> "IntegrityError", http |-> 500])
          /\ UNCHANGED << messages, counters, dc_messages >>
     ELSE /\ counters' = (counters \ SelectCounter(req[p].user_id))
                           \cup {MessageCounter(req[p].user_id, loc[p].message_count)}
          /\ dc_messages' = dc_messages
               \cup {Message(req[p].call, req[p].conversation_id, "user"),
                     Message(req[p].call, req[p].conversation_id, "assistant")}
          /\ messages' = messages \cup {req[p].conversation_id}
          /\ Done(p, [kind |-> "message", call |-> req[p].call])
  /\ UNCHANGED << progress, attempts, conversations, calls, clock, fn >>

NextMsg ==
  \E p \in Procs :
    \/ \E u \in MsgUsers, c \in MsgConvs : StartSendMessage(p, u, c)
    \/ SmAiFails(p)
    \/ SmIncrement(p)
    \/ SmCommit(p)

SpecMsg == InitMsg /\ [][NextMsg]_vars

(* --------------------------- the whole campaign ------------------------- *)

CampUser == "u1"

\* every (track, level) of the campaign
CampKeys ==
  {<< TRAINING_ORDER[i], DIFFICULTY_LEVELS[j] >> :
     i \in 1..Len(TRAINING_ORDER), j \in 1..Len(DIFFICULTY_LEVELS)}

InitCamp ==
  /\ progress = {}
  /\ attempts = {}
  /\ messages = {"c1"}
  /\ conversations = {Conversation("c1", "u1", "training", "first_contact", 1, 1)}
  /\ counters = {}
  /\ dc_messages = {}
  /\ sess = [p \in Procs |-> EmptySession]
  /\ pc = [p \in Procs |-> "idle"]
  /\ req = [p \in Procs |-> NoReq]
  /\ loc = [p \in Procs |-> NoLoc]
  /\ resp = [p \in Procs |-> NoResp]
  /\ calls = 0
  /\ clock = 1
  /\ fn = [phase |-> "off"]

\* initialize_progress with its commit, for a user who has no row yet
CampInitialize ==
  /\ progress = {}
  /\ \E d \in {PS_initialize_progress(progress, {}, EmptySession, 0, CampUser)} :
     \E f \in {Flush(progress, {}, d.s)} :
       /\ d.st = "ok" /\ f.st = "ok"
       /\ progress' = CommitProgress(progress, f.s)
  /\ UNCHANGED << attempts, messages, conversations, counters, dc_messages, sess,
                  pc, req, loc, resp, calls, clock, fn >>

\* an evaluate with a pass, run alone, of a level that is unlocked and not
\* yet passed (every pass at the same time of the clock)
CampPass(k) ==
  /\ \E r \in progress : /\ Key(r) = << CampUser, k[1], k[2] >>
                         /\ r.is_unlocked /\ ~r.passed
  /\ \E c \in {PassCommitted(progress, 1, clock, CampUser, k[1], k[2])} :
       /\ c.st = "ok"
       /\ progress' = c.db
  /\ UNCHANGED << attempts, messages, conversations, counters, dc_messages, sess,
                  pc, req, loc, resp, calls, clock, fn >>

NextCamp ==
  \/ CampInitialize
  \/ \E k \in CampKeys : CampPass(k)

\* the user goes on as long as there is a level to pass
SpecCamp == InitCamp /\ [][NextCamp]_vars /\ WF_vars(NextCamp)

(* ------------- SpecUsers: two users, one handler at a time ------------- *)

IsoUsers == {"u1", "u2"}

\* a training conversation of u1 and one of u2, both with messages
IsoConvs == {"c1", "c4"}

NextUsers ==
  \E p \in {1} :
    \/ \E u \in IsoUsers, c \in IsoConvs, lvl \in {1, 2} :
         StartEvaluate(p, u, c, "first_contact", lvl)
    \/ \E raw \in {<<"J_PASS">>, <<"J_FAIL">>} : EvScore(p, raw)
    \/ EvSetPassed(p)
    \/ EvUnlockSame(p)
    \/ EvUnlockNext(p)
    \/ EvCommit(p)
    \/ \E u \in IsoUsers : StartInitialize(p, u)
    \/ InitCommit(p)
    \/ \E u \in IsoUsers : GetProgress(p, u)

SpecUsers == InitHist /\ [][NextUsers]_vars

(* ------------------------------ claims --------------------------------- *)

\* The campaign rule in the words of the specification.
NextTrack(track) ==
  LET at == {i \in 1..(Len(TRAINING_ORDER) - 1) : TRAINING_ORDER[i] = track} IN
  IF at = {} THEN None ELSE TRAINING_ORDER[(CHOOSE i \in at : TRUE) + 1]

UnlockTargets(track, level) ==
  IF level = 1 THEN {Target(track, 2)}
  ELSE IF level = 2 /\ NextTrack(track) # None
  THEN {Target(track, 3), Target(NextTrack(track), 1)}
  ELSE IF level = 2 THEN {Target(track, 3)}
  ELSE {}

Range(seq) == {seq[i] : i \in DOMAIN seq}

EntryOf(rows, user_id, t) ==
  Match(rows, user_id, t.submode_id, t.difficulty_level)

IsUnlocked(rows, user_id, t) == \E r \in EntryOf(rows, user_id, t) : r.is_unlocked

IsPassed(rows, user_id, t) == \E r \in EntryOf(rows, user_id, t) : r.passed

\* entries of user_id that are unlocked in after and were not in before
NewlyUnlocked(before, after, user_id) ==
  {Target(r.submode_id, r.difficulty_level) :
     r \in {x \in after : /\ x.user_id = user_id
                          /\ x.is_unlocked
                          /\ ~IsUnlocked(before, user_id,
                                Target(x.submode_id, x.difficulty_level))}}

\* everything a session has written so far, flushed or not
Inserted(s) ==
  s.ins \cup {s.pend[i].row : i \in {j \in DOMAIN s.pend : s.pend[j].op = "insert"}}

Updated(s) ==
  s.upd \cup {[id |-> s.pend[i].id, cols |-> s.pend[i].cols] :
                i \in {j \in DOMAIN s.pend : s.pend[j].op = "update"}}

Added(s) ==
  s.atts \cup {s.pend[i].att : i \in {j \in DOMAIN s.pend : s.pend[j].op = "attempt"}}

\* handler p ends in this step
Ends(p) == pc[p] # "idle" /\ pc'[p] = "idle"

Returns(p, kind) == Ends(p) /\ resp'[p].kind = kind

\* C1: an evaluate call that ends either returns, and then its Attempt and
\* every progress row it inserted or updated (the mark-passed row and each
\* unlock) are in the committed tables, or raises, and then the committed
\* tables are as before; no other step of the call changes a committed table.
C1_AttemptAndProgressTogether ==
  [][ /\ \A p \in Procs : (req[p].op = "evaluate" /\ Ends(p)) =>
           \/ /\ resp'[p].kind = "evaluate"
              /\ Added(sess[p]) # {}
              /\ Added(sess[p]) \subseteq attempts'
              /\ Inserted(sess[p]) \subseteq progress'
              /\ \A w \in Updated(sess[p]) : \E r \in progress' :
                   r.id = w.id /\ \A f \in DOMAIN w.cols : r[f] = w.cols[f]
              /\ resp'[p].status = "pass" =>
                   IsPassed(progress', req[p].user_id,
                            Target(req[p].submode_id, req[p].difficulty_level))
           \/ /\ resp'[p].kind = "error"
              /\ attempts' = attempts
              /\ progress' = progress
      /\ (attempts' # attempts \/ progress' # progress) =>
           \E p \in Procs : Returns(p, "evaluate") \/ Returns(p, "initialized")
    ]_vars

\* C1 witness: one passing evaluation is committed with its Attempt and its
\* passed row, and another call has raised at its commit
C1_Witness ==
  \E p, q \in Procs :
    /\ resp[p].kind = "evaluate" /\ resp[p].status = "pass"
    /\ \E a \in attempts : a.id = resp[p].call /\ a.status = "pass"
    /\ \E r \in progress : r.passed
    /\ resp[q].kind = "error"
    /\ resp[q].error \in {"PersistenceFailure", "IntegrityError", "StaleDataError"}

\* C3: every committed entry with passed=true has is_unlocked=true and a
\* passed_at that is not null.
C3_PassedImpliesUnlocked ==
  \A r \in progress : r.passed => (r.is_unlocked /\ r.passed_at # NullTime)

\* C3 witness: an entry that another call created (initialize, as unlocked)
\* was marked passed by the update branch of _set_passed
C3_Witness ==
  \E r \in progress : \E a \in attempts :
    /\ r.passed /\ r.id[1] # a.id /\ a.status = "pass"
    /\ a.submode_id = r.submode_id /\ a.difficulty_level = r.difficulty_level

\* C4: the committed table holds at most one entry per (user, track, level).
C4_OneEntryPerKey ==
  \A r1, r2 \in progress : Key(r1) = Key(r2) => r1 = r2

\* C4 witness: two calls raced on the same key; one is committed and the
\* other was refused by the unique constraint
C4_Witness ==
  /\ progress # {}
  /\ \E p \in Procs : resp[p].kind = "error" /\ resp[p].error = "IntegrityError"

\* C5 (as claimed): no step moves an entry from passed back to not passed or
\* from unlocked back to locked.
C5_Monotonic ==
  [][ \A r \in progress :
        LET t == Target(r.submode_id, r.difficulty_level) IN
        /\ r.passed => IsPassed(progress', r.user_id, t)
        /\ r.is_unlocked => IsUnlocked(progress', r.user_id, t)
    ]_vars

\* C5 (amended): every step other than the commit of initialize keeps passed
\* entries passed and unlocked entries unlocked.
C5_MonotonicExceptInitialize ==
  [][ (\E p \in Procs : Returns(p, "initialized")) \/
      \A r \in progress :
        LET t == Target(r.submode_id, r.difficulty_level) IN
        /\ r.passed => IsPassed(progress', r.user_id, t)
        /\ r.is_unlocked => IsUnlocked(progress', r.user_id, t)
    ]_vars

\* C5 witness: a passing evaluation was committed on top of an entry passed
\* earlier, and both are passed
C5_Witness ==
  \E p \in Procs : \E r1, r2 \in progress :
    /\ resp[p].kind = "evaluate" /\ resp[p].status = "pass"
    /\ r1.passed /\ r2.passed /\ r1.passed_at < r2.passed_at

\* C6 (as claimed): an entry becomes passed only if it was stored as unlocked
\* immediately before.
C6_PassedOnlyFromUnlocked ==
  [][ \A r2 \in progress' :
        LET t == Target(r2.submode_id, r2.difficulty_level) IN
        (r2.passed /\ ~IsPassed(progress, r2.user_id, t)) =>
          IsUnlocked(progress, r2.user_id, t)
    ]_vars

\* C6 (amended): an entry becomes passed from unlocked or from having no
\* entry, never from a stored locked entry, and it is unlocked afterwards.
C6_PassedFromAbsentOrUnlocked ==
  [][ \A r2 \in progress' :
        LET t == Target(r2.submode_id, r2.difficulty_level) IN
        (r2.passed /\ ~IsPassed(progress, r2.user_id, t)) =>
          /\ r2.is_unlocked
          /\ \A r \in EntryOf(progress, r2.user_id, t) : r.is_unlocked
    ]_vars

\* C6 witness: a passed entry that was created by the evaluation of its own
\* (track, level), so it had no entry before
C6_Witness ==
  \E r \in progress : \E a \in attempts :
    /\ r.passed /\ r.id[1] = a.id
    /\ a.submode_id = r.submode_id /\ a.difficulty_level = r.difficulty_level

\* a raw response that is not the expected JSON object: text that is not
\* JSON, or JSON that is a list, string, number or null
NotExpectedShape(raw) ==
  \/ \A i \in DOMAIN raw : raw[i] \notin JsonDocs
  \/ \E i \in DOMAIN raw : raw[i] \in {"J_LIST", "J_STR", "J_NUM", "J_NULL"}

\* C7 (as claimed): whatever raw response that is not the expected object the
\* scorer returns, evaluate does not raise; it goes on with status fail and
\* empty feedback lists and adds a fail Attempt.
C7_GarbageNeverRaises ==
  [][ \A p \in Procs : \A raw \in ScorerResponses :
        (NotExpectedShape(raw) /\ EvScore(p, raw)) =>
          /\ pc'[p] = "ev_commit"
          /\ loc'[p].status = "fail"
          /\ loc'[p].feedback = FB_EMPTY
          /\ \E a \in Added(sess'[p]) : a.status = "fail"
    ]_vars

\* no other handler has served a request so far: the calls ran one by one
Alone(p) == \A q \in Procs \ {p} : pc[q] = "idle" /\ resp[q].kind = "none"

\* level record of a get_progress result
LevelOf(data, submode_id, level) ==
  data.trainings[Index(TRAINING_ORDER, submode_id)].levels[level]

C9_UnlockedOnlyNew ==
  [][ \A p \in Procs :
        (Returns(p, "evaluate") /\ resp'[p].status = "pass" /\ Alone(p)) =>
        Range(resp'[p].unlocked) =
          {t \in UnlockTargets(req[p].submode_id, req[p].difficulty_level) :
             ~IsUnlocked(progress, req[p].user_id, t)}
    ]_vars

\* C2: for a level in 1..3, the list _handle_pass returns and the entries
\* unlock_next and _handle_pass unlock are the targets of the rule: every
\* target is unlocked afterwards, and nothing but a target (and, for
\* _handle_pass, the entry it marks passed) becomes unlocked.
C2_UnlockRule ==
  (fn.phase \in {"unlock_next_1", "handle_pass"} /\ fn.level \in {1, 2, 3}) =>
    LET targets == UnlockTargets(fn.submode_id, fn.level)
        own == IF fn.phase = "handle_pass"
               THEN {Target(fn.submode_id, fn.level)} ELSE {}
    IN /\ fn.st1 = "ok"
       /\ \A t \in targets : IsUnlocked(fn.after1, FnUser, t)
       /\ NewlyUnlocked(fn.before, fn.after1, FnUser) \subseteq (targets \cup own)
       /\ Range(fn.r1) \subseteq targets
       /\ fn.phase = "handle_pass" => Range(fn.r1) = targets

\* C2 witness: level 2 of the last track went through _handle_pass or
\* unlock_next and level 3 of it, locked or absent before, is unlocked
C2_Witness ==
  /\ fn.phase \in {"unlock_next_1", "handle_pass"}
  /\ fn.level = 2
  /\ fn.submode_id = "after_date"
  /\ IsUnlocked(fn.after1, FnUser, Target("after_date", 3))
  /\ ~IsUnlocked(fn.before, FnUser, Target("after_date", 3))

\* C10: a second unlock_next with the same arguments returns the empty list
\* and leaves the rows as the first call left them; the first call returns
\* the targets that were not unlocked before it.
C10_UnlockNextIdempotent ==
  fn.phase = "unlock_next_2" =>
    /\ fn.st1 = "ok" /\ fn.st2 = "ok"
    /\ fn.r2 = << >>
    /\ fn.after2 = fn.after1
    /\ fn.level \in {1, 2, 3} =>
         Range(fn.r1) = {t \in UnlockTargets(fn.submode_id, fn.level) :
                           ~IsUnlocked(fn.before, FnUser, t)}

\* C10 witness: the first call unlocked something and the second call ran
C10_Witness ==
  fn.phase = "unlock_next_2" /\ fn.r1 # << >> /\ fn.after1 # fn.before

\* the targets whose entry a call changed: created, or different from before
Changed(before, after, user_id, targets) ==
  {t \in targets : EntryOf(before, user_id, t) # EntryOf(after, user_id, t)}

\* C11: for a level in 1..3 the list unlock_next returns holds, once each,
\* exactly the targets whose entry the call created or flipped from locked to
\* unlocked; a target that was unlocked before is not in it.
C11_ReturnsChangedTargets ==
  (fn.phase = "unlock_next_1" /\ fn.level \in {1, 2, 3}) =>
    LET targets == UnlockTargets(fn.submode_id, fn.level) IN
    /\ Range(fn.r1) = Changed(fn.before, fn.after1, FnUser, targets)
    /\ Len(fn.r1) = Cardinality(Range(fn.r1))
    /\ \A t \in targets :
         t \in Range(fn.r1) <=>
           /\ ~IsUnlocked(fn.before, FnUser, t)
           /\ IsUnlocked(fn.after1, FnUser, t)

\* C11 witness: of the two targets of a level 2 pass one was stored locked and
\* is returned, the other was already unlocked and is not
C11_Witness ==
  /\ fn.phase = "unlock_next_1" /\ fn.level = 2
  /\ fn.submode_id = "first_contact"
  /\ \E r \in fn.before : /\ Key(r) = << FnUser, "first_contact", 3 >>
                          /\ ~r.is_unlocked
  /\ IsUnlocked(fn.before, FnUser, Target("keep_conversation", 1))
  /\ fn.r1 = << Target("first_contact", 3) >>

\* the rows of before are still there with the same passed and passed_at, the
\* rows outside targets and exempt are as they were, and a row that is new is
\* a target, not passed
KeepsPasses(before, after, targets, exempt) ==
  /\ \A r \in before :
       LET t == Target(r.submode_id, r.difficulty_level) IN
       \E r2 \in after :
         /\ r2.id = r.id
         /\ t \notin exempt => (r2.passed = r.passed /\ r2.passed_at = r.passed_at)
         /\ t \notin (targets \cup exempt) => r2 = r
  /\ \A r2 \in after :
       LET t == Target(r2.submode_id, r2.difficulty_level) IN
       r2.id \notin Ids(before) => (t \in exempt \/ (t \in targets /\ ~r2.passed))

\* C12: unlock_next and _unlock leave passed and passed_at of every existing
\* entry as they were, a passed target included, and change or add no entry
\* other than their targets; so does _handle_pass for every entry other than
\* the one it marks passed.
C12_UnlockKeepsPasses ==
  /\ fn.phase = "unlock_next_1" =>
       /\ fn.st1 = "ok"
       /\ KeepsPasses(fn.before, fn.after1,
                      UnlockTargets(fn.submode_id, fn.level), {})
  /\ fn.phase = "ev_unlock" =>
       /\ fn.st1 = "ok"
       /\ KeepsPasses(fn.before, fn.after1,
                      {Target(fn.submode_id, fn.level)}, {})
  /\ fn.phase = "handle_pass" =>
       /\ fn.st1 = "ok"
       /\ KeepsPasses(fn.before, fn.after1,
                      UnlockTargets(fn.submode_id, fn.level),
                      {Target(fn.submode_id, fn.level)})

\* C12 witness: _unlock ran on a target that was stored as passed at time 1
\* and the target is still passed at time 1
C12_Witness ==
  /\ fn.phase = "ev_unlock"
  /\ \E r \in fn.before : \E r2 \in fn.after1 :
       /\ Key(r) = << FnUser, fn.submode_id, fn.level >>
       /\ r.passed /\ r.passed_at = 1
       /\ r2 = r

\* the snapshot after initialize in the words of the specification: levels 1
\* and 2 of the first track and level 1 of the second unlocked, nothing else
\* unlocked, nothing passed
BootstrapSnapshot(data) ==
  /\ Len(data.trainings) = Len(TRAINING_ORDER)
  /\ \A i \in 1..Len(TRAINING_ORDER) :
       /\ data.trainings[i].submode_id = TRAINING_ORDER[i]
       /\ Len(data.trainings[i].levels) = 3
       /\ \A j \in 1..3 :
            LET lv == data.trainings[i].levels[j] IN
            /\ lv.difficulty_level = j
            /\ lv.is_unlocked = ((i = 1 /\ j \in {1, 2}) \/ (i = 2 /\ j = 1))
            /\ lv.passed = FALSE
            /\ lv.passed_at = None

\* C13: after initialize_progress has committed, from any prior rows of the
\* user, get_progress shows exactly (track1,1), (track1,2), (track2,1)
\* unlocked, every other level locked and no level passed.
C13_InitializeSnapshot ==
  fn.phase \in {"initialize_1", "initialize_2"} =>
    /\ fn.st1 = "ok"
    /\ BootstrapSnapshot(fn.data)
    /\ \A r \in fn.after2 : r.user_id = FnUser => ~r.passed

\* C13 witness: initialize ran on a store in which level 3 of the last track
\* was passed and level 1 of the first track was stored locked
C13_Witness ==
  /\ fn.phase = "initialize_1"
  /\ IsPassed(fn.before, FnUser, Target("after_date", 3))
  /\ \E r \in fn.before : /\ Key(r) = << FnUser, "first_contact", 1 >>
                          /\ ~r.is_unlocked
  /\ fn.after1 # fn.before

\* a row without its primary key
Content(r) == [f \in (DOMAIN r) \ {"id"} |-> r[f]]

\* C14: a second initialize_progress right after the first succeeds and
\* leaves the same progress as the first: the same get_progress result and
\* the same rows up to their primary keys.
C14_InitializeIdempotent ==
  fn.phase = "initialize_2" =>
    /\ fn.st1 = "ok"
    /\ fn.data = PS_get_progress(fn.after1, FnUser)
    /\ {Content(r) : r \in fn.after2} = {Content(r) : r \in fn.after1}
    /\ Cardinality(fn.after2) = Cardinality(fn.after1)

\* C14 witness: the second call ran after a first one that had wiped a
\* passed entry, and it replaced the rows of the first by new ones
C14_Witness ==
  /\ fn.phase = "initialize_2"
  /\ \E r \in fn.before : r.passed
  /\ fn.after1 # {}
  /\ Ids(fn.after2) \cap Ids(fn.after1) = {}

\* C15: an evaluate call that returns a status other than pass commits no
\* change of the progress table (it has written no progress row at all) and
\* adds exactly one Attempt, its own, with outcome fail.
C15_FailLeavesProgress ==
  [][ \A p \in Procs :
        (Returns(p, "evaluate") /\ resp'[p].status # "pass") =>
          /\ progress' = progress
          /\ Inserted(sess[p]) = {} /\ Updated(sess[p]) = {} /\ sess[p].del = {}
          /\ resp'[p].unlocked = << >>
          /\ \E a \in attempts' \ attempts :
               /\ attempts' = attempts \cup {a}
               /\ a.id = req[p].call /\ a.status = "fail"
               /\ a.submode_id = req[p].submode_id
               /\ a.difficulty_level = req[p].difficulty_level
    ]_vars

\* C15 witness: after initialize, an evaluation whose response was a parsed
\* fail (it carries feedback) returned, and the rows are those of initialize
C15_Witness ==
  \E p \in Procs :
    /\ resp[p].kind = "evaluate" /\ resp[p].status = "fail"
    /\ resp[p].feedback = FB_SOME
    /\ \E a \in attempts : a.id = resp[p].call /\ a.status = "fail"
    /\ Cardinality(progress) = 3
    /\ \A r \in progress : r.id[1] # resp[p].call /\ ~r.passed

\* the errors evaluate raises before it has added anything to its session
EarlyErrors == {"ValueError", "ConfigUnavailable", "ScoringUnavailable"}

\* C16: an evaluate call that ends with ValueError (no messages, HTTP 404) or
\* with a failed prompt fetch or scoring call (HTTP 502) leaves the attempts
\* and progress tables as they were and has written nothing; and a call is
\* at the scoring step only with a conversation that has messages.
C16_EarlyErrorNoWrite ==
  [][ \A p \in Procs :
        /\ (resp'[p].kind = "error" /\ resp'[p].error \in EarlyErrors
              /\ (Ends(p) \/ (calls' = calls + 1 /\ Free(p)))) =>
             /\ attempts' = attempts /\ progress' = progress
             /\ sess[p] = EmptySession /\ sess'[p] = EmptySession
             /\ resp'[p].http = IF resp'[p].error = "ValueError" THEN 404 ELSE 502
             /\ (resp'[p].error = "ValueError") = ~Ends(p)
        /\ pc'[p] = "ev_score" => req'[p].conversation_id \in messages
        /\ (calls' = calls + 1 /\ Free(p) /\ pc'[p] = "ev_score") =>
             resp'[p].kind = "none"
    ]_vars

\* C16 witness: after an evaluation that was committed, an evaluate of a
\* conversation without messages ended with ValueError, HTTP 404
C16_Witness ==
  \E p \in Procs :
    /\ resp[p].kind = "error" /\ resp[p].error = "ValueError"
    /\ resp[p].http = 404
    /\ attempts # {} /\ progress # {}
    /\ calls = 2


\* C17: for every scorer response, an evaluate call that returns gives a
\* status that is pass or fail and is the outcome stored in the Attempt the
\* call created, and the progress table changes exactly when that stored
\* outcome is pass.
C17_StatusIsStoredOutcome ==
  [][ \A p \in Procs :
        Returns(p, "evaluate") =>
          \E a \in attempts' \ attempts :
            /\ a.id = req[p].call
            /\ resp'[p].status \in {"pass", "fail"}
            /\ resp'[p].status = a.status
            /\ (a.status = "pass") <=> (progress' # progress)
    ]_vars


\* C18: unlock_next, and the pass handling of evaluate, given a level outside
\* {1,2,3} raise InvalidLevel: they neither return normally nor change the
\* rows the session sees.
C18_InvalidLevelRaises ==
  (fn.phase \in {"unlock_next_1", "handle_pass"} /\ fn.level \notin {1, 2, 3}) =>
    /\ fn.st1 = "InvalidLevel"
    /\ fn.after1 = fn.before


\* C19: attempts are append-only: no step changes or removes an Attempt that
\* is in the table, an evaluate call that returns adds exactly one Attempt, its
\* own, with outcome pass or fail, and no other step (of evaluate, initialize
\* or get_progress) adds one.
C19_AttemptsAppendOnly ==
  [][ /\ attempts \subseteq attempts'
      /\ \A p \in Procs :
           Returns(p, "evaluate") =>
             \E a \in attempts' \ attempts :
               /\ attempts' = attempts \cup {a}
               /\ a.id = req[p].call
               /\ a.status \in {"pass", "fail"}
      /\ (\A p \in Procs : ~Returns(p, "evaluate")) => attempts' = attempts
    ]_vars

\* C19 witness: the Attempt of the first call is still there, as it was, after
\* an initialize call that came later has returned
C19_Witness ==
  \E p \in Procs :
    /\ resp[p].kind = "initialized" /\ resp[p].call = 2
    /\ \E a \in attempts :
         /\ attempts = {a}
         /\ a.id = 1 /\ a.status = "pass"
         /\ a.feedback = JsonDumps(FB_SOME)


C21_ProgressCoversTheCampaign ==
  fn.phase = "get_progress" =>
    /\ DOMAIN fn.data.trainings = 1..7
    /\ \A i \in 1..7 :
         /\ fn.data.trainings[i].submode_id = TRAINING_ORDER[i]
         /\ DOMAIN fn.data.trainings[i].levels = 1..3
         /\ \A j \in 1..3 :
              LET m == {r \in fn.before : /\ r.user_id = fn.user_id
                                          /\ r.submode_id = TRAINING_ORDER[i]
                                          /\ r.difficulty_level = j}
                  lv == fn.data.trainings[i].levels[j]
              IN /\ lv.difficulty_level = j
                 /\ IF m = {}
                    THEN /\ ~lv.is_unlocked /\ ~lv.passed
                         /\ lv.passed_at = None
                    ELSE \E r \in m :
                           /\ lv.is_unlocked = r.is_unlocked
                           /\ lv.passed = r.passed
                           /\ lv.passed_at = IF r.passed_at = NullTime THEN None
                                             ELSE Isoformat(r.passed_at)

\* C21 witness: a table with a passed row and a locked row of the user was
\* read, so the result mixes mirrored rows and defaults
C21_Witness ==
  /\ fn.phase = "get_progress"
  /\ fn.user_id = "u1"
  /\ \E r \in fn.before : r.passed /\ r.submode_id = "keep_conversation"
  /\ \E r \in fn.before : ~r.is_unlocked /\ r.submode_id = "first_contact"
  /\ fn.data.trainings[2].levels[1].passed \/ fn.data.trainings[2].levels[2].passed
       \/ fn.data.trainings[2].levels[3].passed


\* the user has at least one row in the committed table
HasEntry(rows, user_id) == \E r \in rows : r.user_id = user_id

\* C22: get_progress(user).onboarding_complete is true exactly when the user
\* has at least one progress row; so it is true once initialize has returned
\* and once an evaluate with a pass has returned, and it stays false when an
\* evaluate without a pass returns for a user who has no row.
C22_OnboardingCompleteIffEntry ==
  [][ \A p \in Procs :
        /\ (calls' = calls + 1 /\ resp'[p].kind = "progress") =>
             resp'[p].data.onboarding_complete
               = HasEntry(progress, resp'[p].user_id)
        /\ Returns(p, "initialized") =>
             PS_get_progress(progress', req[p].user_id).onboarding_complete
        /\ (Returns(p, "evaluate") /\ resp'[p].status = "pass") =>
             PS_get_progress(progress', req[p].user_id).onboarding_complete
        /\ (Returns(p, "evaluate") /\ resp'[p].status # "pass"
              /\ ~HasEntry(progress, req[p].user_id)) =>
             ~PS_get_progress(progress', req[p].user_id).onboarding_complete
    ]_vars

\* C22 witness: get_progress showed onboarding complete for a user whose only
\* earlier call was an evaluate of level 3 with a pass (one row, no initialize)
C22_Witness ==
  \E p \in Procs :
    /\ resp[p].kind = "progress" /\ resp[p].data.onboarding_complete
    /\ calls = 2
    /\ \E a \in attempts : a.id = 1 /\ a.status = "pass" /\ a.difficulty_level = 3
    /\ Cardinality(progress) = 1


\* C23: a scorer response between an opening fence, with or without a
\* language tag, and a closing fence is parsed to the same result (status and
\* feedback) as the same response without the fences.
C23_FencedParsesAsPlain ==
  fn.phase = "parse_response" => fn.fenced = fn.plain


\* C24: run from the same table for the same (user, track, level), the pass
\* handling of the evaluator and mark-passed followed by
\* ProgressService.unlock_next leave the same rows and report the same
\* unlocked list.
C24_EvaluatorRefinesUnlockNext ==
  fn.phase = "side_by_side" =>
    /\ fn.ev_st = fn.ps_st
    /\ fn.ev_after = fn.ps_after
    /\ fn.ev_unlocked = fn.ps_unlocked


\* C25: at most one Attempt references a conversation: two Attempts of the
\* table that reference the same conversation are the same Attempt.
C25_OneAttemptPerConversation ==
  \A a, b \in attempts :
    (a.conversation_id # None /\ a.conversation_id = b.conversation_id) => a = b


\* C26: with a constant free message limit, the message counter of a user
\* who is never subscribed is at most the limit in every reachable state,
\* also when send_message calls of the user run at the same time.
C26_CounterWithinLimit ==
  \A c \in counters : c.message_count <= FreeLimit


\* is_unlocked and passed of every row, by (user, track, level)
Flags(rows) ==
  {[user_id |-> r.user_id, submode_id |-> r.submode_id,
    difficulty_level |-> r.difficulty_level,
    is_unlocked |-> r.is_unlocked, passed |-> r.passed] : r \in rows}

\* C27: two passing evaluations of one user on different (track, level)
\* pairs, run one after the other, end in both orders without error and with
\* the same is_unlocked and passed values of every progress row.
C27_PassesCommute ==
  fn.phase = "two_passes" =>
    /\ fn.st_ab = << "ok", "ok" >>
    /\ fn.st_ba = << "ok", "ok" >>
    /\ Flags(fn.after_ab) = Flags(fn.after_ba)

\* C27 witness: level 1 and level 2 of first_contact were passed in both
\* orders from a table where level 2 was locked, so the order decides which
\* call unlocks it; the rows differ in their passed_at only
C27_Witness ==
  /\ fn.phase = "two_passes"
  /\ {fn.a, fn.b} = {<< "first_contact", 1 >>, << "first_contact", 2 >>}
  /\ \E r \in fn.before : r.submode_id = "first_contact" /\ r.difficulty_level = 2
                           /\ ~r.is_unlocked
  /\ fn.after_ab # fn.after_ba
  /\ \E r \in fn.after_ab : r.submode_id = "keep_conversation" /\ r.is_unlocked


\* every (track, level) of the campaign has an unlocked row
AllUnlocked ==
  \A k \in CampKeys :
    \E r \in progress : Key(r) = << CampUser, k[1], k[2] >> /\ r.is_unlocked

\* C28: from initialize on, a user who keeps getting a pass on every level
\* that is unlocked and not yet passed eventually has every (track, level) of
\* the 7 tracks and 3 levels unlocked.
C28_CampaignCompletes == <>AllUnlocked

\* C28 witness: all 21 levels are unlocked and the last level to be unlocked,
\* after_date 3, is there because after_date 2 was passed
C28_Witness ==
  /\ AllUnlocked
  /\ Cardinality(progress) = 21
  /\ \E r \in progress : r.submode_id = "after_date" /\ r.difficulty_level = 2
                         /\ r.passed
  /\ \E r \in progress : r.submode_id = "after_date" /\ r.difficulty_level = 3
                         /\ ~r.passed

\* the owner of a conversation
OwnerOf(conversation_id) ==
  (CHOOSE c \in conversations : c.id = conversation_id).user_id

\* C29: evaluate records an Attempt for user u only on a conversation owned
\* by u: every stored Attempt names a conversation of the Attempt's user.
C29_AttemptOnOwnConversation ==
  \A a \in attempts : OwnerOf(a.conversation_id) = a.user_id

\* the rows of a table that belong to a user
RowsOf(rows, user_id) == {r \in rows : r.user_id = user_id}

\* C30: a step changes the ProgressEntries, the Attempts or the getProgress
\* answer of a user only when it is the commit of an evaluate or initialize
\* call made for that user, and a getProgress answer for u is computed from
\* the entries of u alone.
C30_IsolatedPerUser ==
  [][ /\ \A u \in IsoUsers :
           \/ /\ RowsOf(progress', u) = RowsOf(progress, u)
              /\ RowsOf(attempts', u) = RowsOf(attempts, u)
              /\ PS_get_progress(progress', u) = PS_get_progress(progress, u)
           \/ /\ pc[1] \in {"ev_commit", "init_commit"}
              /\ req[1].user_id = u
      /\ resp'[1].kind = "progress" =>
           resp'[1].data = PS_get_progress(RowsOf(progress', resp'[1].user_id),
                                           resp'[1].user_id)
    ]_vars

\* C30 witness: u1 has an Attempt and entries from a passed evaluate, and u2
\* has then been initialized, so that the two users' entries stand side by side
C30_Witness ==
  /\ RowsOf(attempts, "u1") # {}
  /\ RowsOf(progress, "u1") # {}
  /\ RowsOf(progress, "u2") # {}
  /\ resp[1].kind = "initialized"

====
